---- MODULE Spec2Model ----
(***************************************************************************)
(* A model of the runagent Go SDK (package runagent): the client facade    *)
(* (Run, RunStream, GetArchitecture), the response normalizer              *)
(* (parseRunResponse and its helpers), the error classifier and the        *)
(* StreamIterator state machine.                                           *)
(*                                                                         *)
(* Strings are TLA+ strings and the string functions of the Go standard    *)
(* library are computed character by character.  JSON documents are real   *)
(* JSON texts: Marshal computes the text of a value and Unmarshal is its   *)
(* inverse over the bounded universe of values the model uses.             *)
(***************************************************************************)
EXTENDS Integers, Sequences, FiniteSets, TLC

VARIABLES
    \* ---- client facade (RunAgentClient and its transport doubles)
    client,      \* the RunAgentClient's fields
    httpCalls,   \* number of httpClient.Do invocations
    wsDials,     \* number of websocket DialContext invocations
    wsWrites,    \* number of conn.WriteMessage invocations
    lastOp,      \* the facade operation that returned last
    lastArgs,    \* the argument tokens it was called with
    lastRet,     \* what it returned: [val, err]
    lastReq,     \* the request the last operation put on the wire
    lastResp,    \* what the transport double answered to it
    \* ---- response normalizer (parseRunResponse as a function under test)
    pStatus,     \* status argument
    pBody,       \* body argument (JSON text or any other text)
    pOut,        \* [called, val, err]
    \* ---- payload builder (coerceToRunInput as a function under test)
    cValues,     \* the values it is called with
    cOut,        \* [called, input, err]
    \* ---- construction (NewRunAgentClient, the environment, the registry)
    osEnv,       \* the process environment as it is now
    madeCfg,     \* the Config the constructor was called with
    madeEnv,     \* the process environment when the constructor ran
    madeReg,     \* the local agent registry the constructor found
    regOpens,    \* number of registry handles the constructor opened
    regCloses,   \* number of registry handles released so far
    envChanges,  \* number of os.Setenv calls so far
    \* ---- decoding and enrichment helpers (functions under test)
    fCall,       \* the function and the arguments it is applied to
    fRes,        \* the result of its last application
    fPrev,       \* the result of the application before
    fN,          \* number of applications so far
    \* ---- StreamIterator
    closed,      \* StreamIterator.closed
    pc,          \* where the caller is: "idle", "select" or "read" (inside Next)
    callCtx,     \* the context of the running Next call
    ctxDone,     \* whether the cancellable context has been cancelled
    incoming,    \* messages the connection has received and Next has not read
    delivered,   \* number of messages the server has sent so far
    history,     \* every message the server has sent, in order
    reads,       \* number of conn.ReadMessage calls that returned
    connCloses,  \* number of conn.Close calls
    yielded,     \* the chunks Next returned with hasMore = true, in order
    outcome,     \* what the last Next call did: [ret, chunk, err]
    termCause,   \* which terminal path closed the stream ("" while open)
    termOutcome, \* the outcome of the call that took the terminal path
    \* ---- pkg/client StreamIterator (it reads the same connection)
    finished,    \* StreamIterator.finished
    sErr,        \* StreamIterator.err
    \* ---- NextOrPanic
    wrapOut      \* what the last NextOrPanic call did: [ret, val]

clientVars == <<client, httpCalls, wsDials, wsWrites, lastOp, lastArgs, lastRet,
                lastReq, lastResp>>
parseVars  == <<pStatus, pBody, pOut>>
coerceVars == <<cValues, cOut>>
envVars    == <<osEnv, madeCfg, madeEnv, madeReg, regOpens, regCloses, envChanges>>
fnVars     == <<fCall, fRes, fPrev, fN>>
pkgVars    == <<finished, sErr>>
wrapVars   == <<wrapOut>>
restVars   == <<coerceVars, envVars, fnVars, pkgVars, wrapVars>>
streamVars == <<closed, pc, callCtx, ctxDone, incoming, delivered, history,
                reads, connCloses, yielded, outcome, termCause, termOutcome>>
vars == <<clientVars, parseVars, restVars, streamVars>>

-----------------------------------------------------------------------------
(* package strings *)

CharAt(s, i) == SubSeq(s, i, i)

LowerOf ==
    [A |-> "a", B |-> "b", C |-> "c", D |-> "d", E |-> "e", F |-> "f", G |-> "g",
     H |-> "h", I |-> "i", J |-> "j", K |-> "k", L |-> "l", M |-> "m", N |-> "n",
     O |-> "o", P |-> "p", Q |-> "q", R |-> "r", S |-> "s", T |-> "t", U |-> "u",
     V |-> "v", W |-> "w", X |-> "x", Y |-> "y", Z |-> "z"]
UpperOf ==
    [a |-> "A", b |-> "B", c |-> "C", d |-> "D", e |-> "E", f |-> "F", g |-> "G",
     h |-> "H", i |-> "I", j |-> "J", k |-> "K", l |-> "L", m |-> "M", n |-> "N",
     o |-> "O", p |-> "P", q |-> "Q", r |-> "R", s |-> "S", t |-> "T", u |-> "U",
     v |-> "V", w |-> "W", x |-> "X", y |-> "Y", z |-> "Z"]

ToLowerChar(c) == IF c \in DOMAIN LowerOf THEN LowerOf[c] ELSE c
ToUpperChar(c) == IF c \in DOMAIN UpperOf THEN UpperOf[c] ELSE c

RECURSIVE ToLower(_)
ToLower(s) ==
    IF s = "" THEN ""
    ELSE ToLowerChar(CharAt(s, 1)) \o ToLower(SubSeq(s, 2, Len(s)))

RECURSIVE ToUpper(_)
ToUpper(s) ==
    IF s = "" THEN ""
    ELSE ToUpperChar(CharAt(s, 1)) \o ToUpper(SubSeq(s, 2, Len(s)))

HasSuffix(s, suffix) ==
    /\ Len(s) >= Len(suffix)
    /\ SubSeq(s, Len(s) - Len(suffix) + 1, Len(s)) = suffix

HasPrefix(s, prefix) ==
    /\ Len(s) >= Len(prefix)
    /\ SubSeq(s, 1, Len(prefix)) = prefix

Contains(s, sub) ==
    \E i \in 1..(Len(s) - Len(sub) + 1) : SubSeq(s, i, i + Len(sub) - 1) = sub

EqualFold(a, b) == ToLower(a) = ToLower(b)

RECURSIVE TrimLeft(_)
TrimLeft(s) ==
    IF s # "" /\ CharAt(s, 1) = " " THEN TrimLeft(SubSeq(s, 2, Len(s))) ELSE s

RECURSIVE TrimRight(_)
TrimRight(s) ==
    IF s # "" /\ CharAt(s, Len(s)) = " "
    THEN TrimRight(SubSeq(s, 1, Len(s) - 1)) ELSE s

TrimSpace(s) == TrimRight(TrimLeft(s))

-----------------------------------------------------------------------------
(* JSON values, as encoding/json decodes them into interface{}:            *)
(* nil, bool, float64, string, map[string]interface{}, []interface{}.      *)

Null     == [k |-> "null"]
Bool(b)  == [k |-> "bool", b |-> b]
Num(n)   == [k |-> "num", n |-> n]
Str(s)   == [k |-> "str", s |-> s]
Obj(f)   == [k |-> "obj", o |-> f]
Arr(q)   == [k |-> "arr", a |-> q]

IsNil(v) == v.k = "null"
IsStr(v) == v.k = "str"
IsObj(v) == v.k = "obj"
IsBool(v) == v.k = "bool"
IsArr(v) == v.k = "arr"
Has(v, key) == IsObj(v) /\ key \in DOMAIN v.o

\* m[key] on a map: nil when the key is missing.
MapIndex(v, key) == IF Has(v, key) THEN v.o[key] ELSE Null

\* The empty map.
EmptyObj == Obj(<<>>)

-----------------------------------------------------------------------------
(* encoding/json and fmt *)

Digits == "0123456789"

RECURSIVE Itoa(_)
Itoa(n) ==
    IF n < 10 THEN CharAt(Digits, n + 1)
    ELSE Itoa(n \div 10) \o CharAt(Digits, (n % 10) + 1)

\* The body of a quoted string: a quote and a backslash are escaped.
RECURSIVE Escape(_)
Escape(s) ==
    IF s = "" THEN ""
    ELSE LET c == CharAt(s, 1)
             rest == Escape(SubSeq(s, 2, Len(s)))
         IN  IF c = "\"" \/ c = "\\" THEN "\\" \o c \o rest ELSE c \o rest

RECURSIVE Unescape(_)
Unescape(s) ==
    IF s = "" THEN ""
    ELSE IF CharAt(s, 1) = "\\" /\ Len(s) >= 2
         THEN CharAt(s, 2) \o Unescape(SubSeq(s, 3, Len(s)))
         ELSE CharAt(s, 1) \o Unescape(SubSeq(s, 2, Len(s)))

\* fmt.Sprintf("%q", s), and the JSON string literal of s: the texts of the
\* model hold no control characters, so both quote s the same way.
Quote(s) == "\"" \o Escape(s) \o "\""

\* The keys of the objects of the model, in the order json.Marshal writes them.
KeyOrder ==
    <<"AsyncExecution", "InputArgs", "InputKwargs", "TimeoutSeconds",
      "agent_id", "code", "content", "data", "details", "entrypoints", "error",
      "message", "output_data", "payload", "result_data", "status", "success",
      "suggestion", "tag", "type", "x">>

RECURSIVE Marshal(_)
RECURSIVE MarshalMembers(_, _, _)
RECURSIVE MarshalItems(_, _)

Marshal(v) ==
    CASE v.k = "null" -> "null"
      [] v.k = "bool" -> (IF v.b THEN "true" ELSE "false")
      [] v.k = "num"  -> Itoa(v.n)
      [] v.k = "str"  -> Quote(v.s)
      [] v.k = "obj"  -> "{" \o MarshalMembers(v.o, 1, TRUE) \o "}"
      [] v.k = "arr"  -> "[" \o MarshalItems(v.a, 1) \o "]"

MarshalMembers(f, i, first) ==
    IF i > Len(KeyOrder) THEN ""
    ELSE IF KeyOrder[i] \in DOMAIN f
         THEN (IF first THEN "" ELSE ",") \o Quote(KeyOrder[i]) \o ":"
              \o Marshal(f[KeyOrder[i]]) \o MarshalMembers(f, i + 1, FALSE)
         ELSE MarshalMembers(f, i + 1, first)

MarshalItems(q, i) ==
    IF i > Len(q) THEN ""
    ELSE (IF i = 1 THEN "" ELSE ",") \o Marshal(q[i]) \o MarshalItems(q, i + 1)


\* The values of v and of everything inside it.
RECURSIVE SubValues(_)
SubValues(v) ==
    {v} \cup
    (CASE v.k = "obj" -> UNION {SubValues(v.o[key]) : key \in DOMAIN v.o}
       [] v.k = "arr" -> UNION {SubValues(v.a[i]) : i \in DOMAIN v.a}
       [] OTHER -> {})

\* A field that is not there (in a struct: the zero value of json.RawMessage).
Absent == [k |-> "absent"]

\* The record r without its Absent fields, as a JSON object.
ObjOf(r) == Obj([key \in {x \in DOMAIN r : r[x] # Absent} |-> r[key]])

-----------------------------------------------------------------------------
(* The bounded universe of JSON documents.                                 *)

\* Plain texts: none of them is a JSON document.
PlainTexts == {"hello", "a", "b", "boom", "bad input", "run failed"}

XObj == Obj([x |-> Num(1)])

\* The JSON texts of some values, written out: what a server puts into a
\* string field when it encodes a value before sending it.
NullText == "null"
OneText == "1"
TwoText == "2"
XObjText == "{\"x\":1}"
HelloText == "\"hello\""
\* the text of the string that holds XObjText
XObjTextText == "\"{\\\"x\\\":1}\""
ResultDataObjText == "{\"result_data\":{\"data\":{\"x\":1}}}"
ErrorBoomText == "{\"error\":\"boom\"}"

\* A server-supplied structured error, with a type of the taxonomy and with
\* one outside it.
ErrObjTyped == Obj([type |-> Str("VALIDATION_ERROR"), message |-> Str("bad input"),
                    code |-> Str("BAD_INPUT")])
ErrObjAlien == Obj([type |-> Str("RATE_LIMITED"), message |-> Str("boom"),
                    suggestion |-> Str("slow down")])

ResultDataObj  == Obj([result_data |-> Obj([data |-> XObj])])
ResultDataNull == Obj([result_data |-> Obj([data |-> Null])])

\* What the "error" field of an envelope may hold.
EnvErrorVals ==
    {Absent, Null, Str("boom"), Str(""), Bool(FALSE), ErrObjTyped, ErrObjAlien}
EnvSuccessVals == {Absent, Bool(TRUE), Bool(FALSE), Str("false")}
EnvDataVals ==
    {Absent, Null, Num(1), Str("hello"), Str(NullText),
     Str(ResultDataObjText), ResultDataObj, ResultDataNull,
     Obj([data |-> Str("a")]), Obj([content |-> Str("b")]),
     Obj([payload |-> Str(XObjText)]), XObj}
EnvPayloadVals == {Absent, Str(TwoText), Num(3)}
EnvOutputVals  == {Absent, Num(4)}
EnvMessageVals == {Absent, Str("run failed")}

\* The decoded top-level objects of the responses of the model.
Envelopes ==
    {ObjOf(r) : r \in [error : EnvErrorVals, success : EnvSuccessVals,
                       data : EnvDataVals, payload : EnvPayloadVals,
                       output_data : EnvOutputVals, message : EnvMessageVals]}

\* Documents that are no object.
ScalarDocs == {Null, Num(1), Num(2), Bool(TRUE), Str("a"), Str("hello"),
               Arr(<<Num(1), Str("a")>>)}


\* The messages a server may put on a stream (decoded; Marshal gives the text).
FrameStarted   == Obj([type |-> Str("status"), status |-> Str("stream_started")])
FrameCompleted == Obj([type |-> Str("status"), status |-> Str("stream_completed")])
FrameFailed    == Obj([type |-> Str("status"), status |-> Str("stream_failed")])
FrameHeartbeat == Obj([type |-> Str("status"), status |-> Str("heartbeat")])
FrameDataA     == Obj([type |-> Str("data"), content |-> Str("a")])
FrameDataB     == Obj([type |-> Str("data"), content |-> Str("b")])
\* a data frame whose string content is itself a JSON document
FrameDataNum   == Obj([type |-> Str("data"), content |-> Str(OneText)])
FrameDataObj   == Obj([type |-> Str("data"), content |-> Str(XObjText)])
FrameError     == Obj([type |-> Str("ERROR"), error |-> ErrObjTyped])
\* an error frame that carries nothing but its type
FrameErrorOnly == Obj([type |-> Str("Error")])
\* an error frame as the pkg/client iterator expects it, without a message
FrameErrorLower == Obj([type |-> Str("error")])
FrameErrField  == Obj([type |-> Str("data"), content |-> Str("a"), error |-> Str("boom")])
FrameEmbedded  == Obj([type |-> Str("data"), content |-> Obj([error |-> Str("boom")])])
FrameTypeError == Obj([type |-> Str("ping"),
                       data |-> Obj([type |-> Str("Error"), message |-> Str("boom")])])
FrameUnknown   == Obj([type |-> Str("ping"), data |-> Str("b")])
\* a JSON object that does not decode into a streamFrame (type is a number)
FrameBadType   == Obj([type |-> Num(1)])

\* data frames around the embedded error: the error object as a string, an
\* error key that is null, and an error key beside a content key
FrameEmbeddedText ==
    Obj([type |-> Str("data"), content |-> Str(ErrorBoomText)])
FrameErrorNull == Obj([type |-> Str("data"), content |-> Obj([error |-> Null, x |-> Num(1)])])
FrameNested ==
    Obj([type |-> Str("data"),
         content |-> Obj([content |-> Str("a"), error |-> Str("boom")])])

FrameDocs ==
    {FrameErrorLower, FrameEmbeddedText, FrameErrorNull, FrameNested, FrameStarted, FrameCompleted, FrameFailed, FrameHeartbeat, FrameDataA,
     FrameDataB, FrameDataNum, FrameDataObj, FrameError, FrameErrorOnly,
     FrameErrField, FrameEmbedded,
     FrameTypeError, FrameUnknown, FrameBadType}

\* Architecture documents: the envelope format and the legacy format.
EntrypointsOne == Arr(<<Obj([tag |-> Str("chat")])>>)
ArchLegacy == Obj([agent_id |-> Str("agent-1"), entrypoints |-> EntrypointsOne])
ArchLegacyEmpty == Obj([agent_id |-> Str("agent-1"), entrypoints |-> Arr(<<>>)])
ArchEnvelope == Obj([success |-> Bool(TRUE), data |-> ArchLegacy])
ArchEnvelopeEmpty == Obj([success |-> Bool(TRUE), data |-> ArchLegacyEmpty])
ArchEnvelopeError == Obj([success |-> Bool(FALSE), error |-> ErrObjTyped])
ArchBadType == Obj([entrypoints |-> Str("chat")])
ArchDocs ==
    {ArchLegacy, ArchLegacyEmpty, ArchEnvelope, ArchEnvelopeEmpty,
     ArchEnvelopeError, ArchBadType}

\* Strings wrapped in further layers of encoding.
LayeredDocs ==
    {Str(XObjTextText), Str(HelloText),
     Obj([payload |-> Str(XObjTextText)]),
     Obj([payload |-> Str("hello")])}

\* Error envelopes whose message and code match the enrichment rules or do
\* not, with and without a suggestion of the server.
ErrorMessages ==
    {"", "boom", "got an Unexpected Keyword Argument 'x'", "Entrypoint chat not found"}
ErrorCodes == {"", "authentication_error", "NON_STREAM_ENTRYPOINT", "STREAM_ENTRYPOINT"}
ErrorSuggestions == {"", "slow down"}
ErrorEnvelope(message, code, suggestion) ==
    Obj([error |-> Obj([message |-> Str(message), code |-> Str(code),
                        suggestion |-> Str(suggestion)])])
ErrorDocs ==
    {ErrorEnvelope(message, code, suggestion) :
        message \in ErrorMessages, code \in ErrorCodes, suggestion \in ErrorSuggestions}

\* Every value a text of the model encodes.
JsonUniverse ==
    UNION {SubValues(v) : v \in Envelopes \cup ScalarDocs \cup FrameDocs \cup ArchDocs
                                \cup LayeredDocs \cup ErrorDocs}

JsonPairs == {<<Marshal(v), v>> : v \in JsonUniverse}
JsonTexts == {p[1] : p \in JsonPairs}

\* The texts written out above are what Marshal gives for their values.
TextsAreMarshalled ==
    /\ NullText = Marshal(Null) /\ OneText = Marshal(Num(1)) /\ TwoText = Marshal(Num(2))
    /\ XObjText = Marshal(XObj) /\ HelloText = Marshal(Str("hello"))
    /\ XObjTextText = Marshal(Str(Marshal(XObj)))
    /\ ResultDataObjText = Marshal(ResultDataObj)
    /\ ErrorBoomText = Marshal(Obj([error |-> Str("boom")]))

\* json.Unmarshal(text, &v) with v an interface{}: the decoded value, or failure.
Unmarshal(text) ==
    IF text \in JsonTexts
    THEN [ok |-> TRUE, v |-> (CHOOSE p \in JsonPairs : p[1] = text)[2]]
    ELSE [ok |-> FALSE, v |-> Null]

\* json.Unmarshal(text, &m) with m a map[string]interface{}: an object decodes,
\* null leaves the map nil (it reads as the empty map), anything else fails.
UnmarshalMap(text) ==
    LET u == Unmarshal(text)
    IN  IF u.ok /\ IsObj(u.v) THEN u
        ELSE IF u.ok /\ IsNil(u.v) THEN [ok |-> TRUE, v |-> EmptyObj]
        ELSE [ok |-> FALSE, v |-> Null]

\* json.Unmarshal(text, &s) with s a string: a JSON string literal decodes.
UnmarshalString(text) ==
    IF Len(text) >= 2 /\ CharAt(text, 1) = "\"" /\ CharAt(text, Len(text)) = "\""
    THEN [ok |-> TRUE, s |-> Unescape(SubSeq(text, 2, Len(text) - 1))]
    ELSE [ok |-> FALSE, s |-> ""]

-----------------------------------------------------------------------------
(* The error taxonomy and the error values.                                *)

ErrorTypeAuthentication == "AUTHENTICATION_ERROR"
ErrorTypePermission     == "PERMISSION_ERROR"
ErrorTypeConnection     == "CONNECTION_ERROR"
ErrorTypeValidation     == "VALIDATION_ERROR"
ErrorTypeServer         == "SERVER_ERROR"
ErrorTypeUnknown        == "UNKNOWN_ERROR"

ErrorTypes ==
    {ErrorTypeAuthentication, ErrorTypePermission, ErrorTypeConnection,
     ErrorTypeValidation, ErrorTypeServer, ErrorTypeUnknown}

\* A Go error value.  cls says what it is: "nil" (no error), "RunAgentError",
\* "RunAgentExecutionError" or "context" (the context package's own error,
\* which has no Type).
NoErr ==
    [cls |-> "nil", Type |-> "", Code |-> "", Message |-> "", Suggestion |-> "",
     Details |-> Null, HTTPStatus |-> 0]

newError(kind, message, code, suggestion) ==
    [cls |-> "RunAgentError", Type |-> kind, Code |-> code, Message |-> message,
     Suggestion |-> suggestion, Details |-> Null, HTTPStatus |-> 0]

\* ctx.Err() of a cancelled context.
ContextCanceled ==
    [cls |-> "context", Type |-> "", Code |-> "", Message |-> "context canceled",
     Suggestion |-> "", Details |-> Null, HTTPStatus |-> 0]

\* *apiErrorPayload; nil is the nil pointer.
NilPayload ==
    [nil |-> TRUE, Type |-> "", Code |-> "", Message |-> "", Suggestion |-> "",
     Details |-> Null]

ApiError(type, code, message, suggestion, details) ==
    [nil |-> FALSE, Type |-> type, Code |-> code, Message |-> message,
     Suggestion |-> suggestion, Details |-> details]

\* fmt.Sprint / the %v verb, on a decoded JSON value.
RECURSIVE GoSprint(_)
RECURSIVE SprintItems(_, _)
RECURSIVE SprintMembers(_, _, _)

GoSprint(v) ==
    CASE v.k = "null" -> "<nil>"
      [] v.k = "bool" -> (IF v.b THEN "true" ELSE "false")
      [] v.k = "num"  -> Itoa(v.n)
      [] v.k = "str"  -> v.s
      [] v.k = "arr"  -> "[" \o SprintItems(v.a, 1) \o "]"
      [] v.k = "obj"  -> "map[" \o SprintMembers(v.o, 1, TRUE) \o "]"

SprintItems(q, i) ==
    IF i > Len(q) THEN ""
    ELSE (IF i = 1 THEN "" ELSE " ") \o GoSprint(q[i]) \o SprintItems(q, i + 1)

SprintMembers(f, i, first) ==
    IF i > Len(KeyOrder) THEN ""
    ELSE IF KeyOrder[i] \in DOMAIN f
         THEN (IF first THEN "" ELSE " ") \o KeyOrder[i] \o ":"
              \o GoSprint(f[KeyOrder[i]]) \o SprintMembers(f, i + 1, FALSE)
         ELSE SprintMembers(f, i + 1, first)

\* val[key].(string): the string and whether the assertion holds.
StringField(v, key) ==
    IF Has(v, key) /\ IsStr(v.o[key])
    THEN [ok |-> TRUE, s |-> v.o[key].s]
    ELSE [ok |-> FALSE, s |-> ""]

parseAPIError(raw) ==
    CASE raw.k = "null" -> NilPayload
      [] raw.k = "str"  -> ApiError(ErrorTypeServer, "", raw.s, "", Null)
      [] raw.k = "obj"  ->
            LET t == StringField(raw, "type")
                m == StringField(raw, "message")
                c == StringField(raw, "code")
                g == StringField(raw, "suggestion")
            IN  ApiError(IF t.ok /\ t.s # "" THEN t.s ELSE ErrorTypeServer,
                         IF c.ok THEN c.s ELSE "",
                         IF m.ok THEN m.s ELSE "",
                         IF g.ok THEN g.s ELSE "",
                         IF Has(raw, "details") /\ IsObj(raw.o["details"])
                         THEN raw.o["details"] ELSE Null)
      [] OTHER -> ApiError(ErrorTypeServer, "", GoSprint(raw), "", Null)

SuggestKwarg ==
    "Check the entrypoint's expected parameter names. If your agent expects 'message', pass Kw(\"message\", ...)."
SuggestEntrypoint ==
    "Verify the entrypoint tag and use GetArchitecture(ctx) to list available tags."
SuggestAPIKey == "Set RUNAGENT_API_KEY or pass Config.APIKey for remote calls."
SuggestRun == "Use client.Run(...) for non-stream tags."
SuggestRunStream == "Use client.RunStream(...) for *_stream tags."

\* The suggestion the first matching rule proposes ("" when no rule matches).
EnrichmentFor(e) ==
    LET msg  == ToLower(e.Message)
        code == ToUpper(e.Code)
    IN  CASE Contains(msg, "unexpected keyword argument") -> SuggestKwarg
          [] Contains(msg, "entrypoint") /\ Contains(msg, "not found") -> SuggestEntrypoint
          [] code = "AUTHENTICATION_ERROR" -> SuggestAPIKey
          [] code = "NON_STREAM_ENTRYPOINT" -> SuggestRun
          [] code = "STREAM_ENTRYPOINT" -> SuggestRunStream
          [] OTHER -> ""

\* enrichErrorPayload writing its suggestion over the one that is there.
enrichErrorPayload_Overwrites(e) ==
    IF e.nil THEN e
    ELSE LET proposed == EnrichmentFor(e)
         IN  IF proposed # "" THEN [e EXCEPT !.Suggestion = proposed] ELSE e

enrichErrorPayload(e) ==
    IF e.nil THEN e
    ELSE LET proposed == EnrichmentFor(e)
         IN  IF proposed # "" /\ e.Suggestion = ""
             THEN [e EXCEPT !.Suggestion = proposed]
             ELSE e

newExecutionError(status, apiErr) ==
    LET a == enrichErrorPayload(
                 IF apiErr.nil
                 THEN ApiError(ErrorTypeUnknown, "", "agent execution failed", "", Null)
                 ELSE apiErr)
    IN  [cls |-> "RunAgentExecutionError",
         Type |-> IF a.Type = "" THEN ErrorTypeServer ELSE a.Type,
         Code |-> a.Code, Message |-> a.Message, Suggestion |-> a.Suggestion,
         Details |-> a.Details, HTTPStatus |-> status]

formatFriendlyError(err) ==
    CASE err.cls \in {"RunAgentExecutionError", "RunAgentError"} ->
            IF err.Suggestion # ""
            THEN "RunAgent error: " \o err.Message \o " (" \o err.Type \o ")\nSuggestion: "
                 \o err.Suggestion
            ELSE "RunAgent error: " \o err.Message \o " (" \o err.Type \o ")"
      [] OTHER -> "RunAgent error: " \o err.Message

\* extractAPIError with the success flag looked at before the error field.
extractAPIError_SuccessFirst(envelope) ==
    IF Has(envelope, "success") /\ IsBool(envelope.o["success"])
       /\ envelope.o["success"].b
    THEN NilPayload
    ELSE IF Has(envelope, "error") /\ ~IsNil(envelope.o["error"])
    THEN parseAPIError(envelope.o["error"])
    ELSE IF Has(envelope, "success") /\ IsBool(envelope.o["success"])
         THEN ApiError(ErrorTypeServer, "", "agent execution failed", "", Null)
         ELSE NilPayload

extractAPIError(envelope) ==
    LET parsed == parseAPIError(MapIndex(envelope, "error"))
    IN
    IF Has(envelope, "error") /\ ~parsed.nil
    THEN parsed
    ELSE IF Has(envelope, "success") /\ IsBool(envelope.o["success"])
         THEN IF envelope.o["success"].b
              THEN NilPayload
              ELSE LET m == StringField(envelope, "message")
                   IN  ApiError(ErrorTypeServer, "",
                                IF m.ok /\ m.s # "" THEN m.s ELSE "agent execution failed",
                                "", Null)
         ELSE NilPayload


-----------------------------------------------------------------------------
(* The response normalizer.                                                *)

\* decodeStructuredString without the decoding: the string as it came.
decodeStructuredString_Verbatim(value) == Str(value)

\* decodeStructuredString decoding again whatever string it decoded.
RECURSIVE decodeStructuredString_ToFixedPoint(_)
decodeStructuredString_ToFixedPoint(value) ==
    LET decoded == Unmarshal(value)
    IN  IF value = "" THEN Str(value)
        ELSE IF decoded.ok
        THEN IF IsStr(decoded.v) /\ decoded.v.s # value
             THEN decodeStructuredString_ToFixedPoint(decoded.v.s)
             ELSE decoded.v
        ELSE Str(value)

decodeStructuredString(value) ==
    LET decoded == Unmarshal(value)
        unquoted == UnmarshalString(Quote(value))
    IN  IF value = "" THEN Str(value)
        ELSE IF decoded.ok THEN decoded.v
        ELSE IF unquoted.ok THEN Str(unquoted.s)
        ELSE Str(value)

decodeStructuredObject(obj) ==
    LET payload == MapIndex(obj, "payload")
    IN  IF Has(obj, "payload")
        THEN IF IsStr(payload) THEN decodeStructuredString(payload.s) ELSE payload
        ELSE obj

unwrapDataField(data) ==
    CASE data.k = "str" -> decodeStructuredString(data.s)
      [] data.k = "obj" ->
            IF /\ Has(data, "result_data")
               /\ Has(data.o["result_data"], "data")
            THEN data.o["result_data"].o["data"]
            ELSE IF Has(data, "data") THEN data.o["data"]
            ELSE IF Has(data, "content") THEN data.o["content"]
            ELSE decodeStructuredObject(data)
      [] OTHER -> data

\* What a call returns: a value and an error (NoErr is Go's nil error).
Ret(val, err) == [val |-> val, err |-> err]

parseRunResponse(status, body) ==
    LET u == UnmarshalMap(body)
        envelope == u.v
        errPayload == extractAPIError(envelope)
        result == unwrapDataField(MapIndex(envelope, "data"))
        payload == MapIndex(envelope, "payload")
        decodedBody == decodeStructuredString(body)
        decodedResult == decodeStructuredObject(result)
        decodedPayload == decodeStructuredString(payload.s)
    IN  IF ~u.ok THEN Ret(decodedBody, NoErr)
        ELSE IF ~errPayload.nil
        THEN Ret(Null, newExecutionError(status, errPayload))
        ELSE IF Has(envelope, "data") /\ ~IsNil(result)
        THEN IF IsObj(result) THEN Ret(decodedResult, NoErr)
             ELSE Ret(result, NoErr)
        ELSE IF Has(envelope, "payload")
        THEN IF IsStr(payload) THEN Ret(decodedPayload, NoErr)
             ELSE Ret(payload, NoErr)
        ELSE IF Has(envelope, "output_data")
        THEN Ret(envelope.o["output_data"], NoErr)
        ELSE Ret(envelope, NoErr)

SuggestSetKey == "Set RUNAGENT_API_KEY or pass Config.APIKey"

translateHTTPError(status, body) ==
    LET u == UnmarshalMap(body)
        generic == ApiError(ErrorTypeServer, "",
                            "server returned status " \o Itoa(status), "", Null)
        parsed == extractAPIError(u.v)
        apiErr == IF u.ok /\ ~parsed.nil THEN enrichErrorPayload(parsed)
                  ELSE generic
        typed == IF status = 401 \/ status = 403
                 THEN [apiErr EXCEPT !.Type = ErrorTypeAuthentication,
                                     !.Suggestion = IF @ = "" THEN SuggestSetKey ELSE @]
                 ELSE IF status >= 500
                      THEN [apiErr EXCEPT !.Type = ErrorTypeServer]
                      ELSE apiErr
    IN  newExecutionError(status, typed)


-----------------------------------------------------------------------------
(* The stream normalizer: frames and their decoding.                       *)

\* A decoded streamFrame.  Content, Data and Error are json.RawMessage: Absent
\* when the key is missing (length 0), else the raw value (null included).
Frame(type, status, content, data, error) ==
    [Type |-> type, Status |-> status, Content |-> content, Data |-> data,
     Error |-> error]

RawField(v, key) == IF Has(v, key) THEN v.o[key] ELSE Absent

\* A string field of the struct accepts a JSON string, and null or a missing
\* key leave it empty; any other JSON value is a type error.
StringFieldDecodes(v, key) == Has(v, key) => (IsStr(v.o[key]) \/ IsNil(v.o[key]))
StringFieldValue(v, key) == IF Has(v, key) /\ IsStr(v.o[key]) THEN v.o[key].s ELSE ""

\* json.Unmarshal(msg, &frame) with frame a streamFrame.
UnmarshalFrame(msg) ==
    LET u == Unmarshal(msg)
        zero == Frame("", "", Absent, Absent, Absent)
    IN  IF ~u.ok THEN [ok |-> FALSE, frame |-> zero]
        ELSE IF IsNil(u.v) THEN [ok |-> TRUE, frame |-> zero]
        ELSE IF ~IsObj(u.v) THEN [ok |-> FALSE, frame |-> zero]
        ELSE IF ~(StringFieldDecodes(u.v, "type") /\ StringFieldDecodes(u.v, "status"))
        THEN [ok |-> FALSE, frame |-> zero]
        ELSE [ok |-> TRUE,
              frame |-> Frame(StringFieldValue(u.v, "type"),
                              StringFieldValue(u.v, "status"),
                              RawField(u.v, "content"), RawField(u.v, "data"),
                              RawField(u.v, "error"))]

\* The raw message decodeStreamPayload decodes: content, else data.
PayloadRaw(frame) == IF frame.Content # Absent THEN frame.Content ELSE frame.Data

\* decodeStreamPayload never fails: a json.RawMessage taken from a decoded
\* message is a JSON document, so its json.Unmarshal succeeds.
decodeStreamPayload(frame) ==
    LET raw == PayloadRaw(frame)
        \* the value to normalize: the map itself, or the decoded string
        decoded == IF raw.k = "str" THEN decodeStructuredString(raw.s) ELSE raw
        normalized == IF IsObj(decoded) THEN decodeStructuredObject(decoded)
                      ELSE decoded
    IN  IF raw = Absent THEN Null
        ELSE CASE raw.k = "obj" ->
                    IF Has(raw, "content") THEN raw.o["content"] ELSE normalized
               [] raw.k = "str" -> normalized
               [] OTHER -> raw

parseFrameError(frame) ==
    IF frame.Error = Absent
    THEN ApiError(ErrorTypeServer, "", "stream failed", "", Null)
    ELSE parseAPIError(frame.Error)

FrameError_(frame) == newExecutionError(0, enrichErrorPayload(parseFrameError(frame)))

\* The failure vocabulary of a status string.
StatusIndicatesFailure(status) ==
    LET lowered == ToLower(status)
    IN  \/ Contains(lowered, "error")
        \/ Contains(lowered, "fail")
        \/ Contains(lowered, "failed")

\* What Next does with one message it has read.  step is "continue" (read
\* again) or "return"; ret is what the call returns: "chunk" (value, true,
\* nil), "eos" (nil, false, nil), "error" (nil, false, err) or "panic" (the
\* call does not return: panic(formatFriendlyError(err)), and chunk holds the
\* string panicked with); close says whether s.Close() was called, and cause
\* names the terminal path.
Handled(step, ret, chunk, err, close, cause) ==
    [step |-> step, ret |-> ret, chunk |-> chunk, err |-> err, close |-> close,
     cause |-> cause]

Continue == Handled("continue", "none", Null, NoErr, FALSE, "")
\* A panic that leaves the iterator open.
Panic_NoClose(err, cause) ==
    Handled("return", "panic", Str(formatFriendlyError(err)), NoErr, FALSE, cause)

Panic(err, cause) ==
    Handled("return", "panic", Str(formatFriendlyError(err)), NoErr, TRUE, cause)

\* The errors the data arm builds from a decoded payload that is a map.
EmbeddedError(payload) ==
    IF Has(payload, "error") /\ ~IsNil(payload.o["error"])
    THEN parseAPIError(payload.o["error"])
    ELSE ApiError(ErrorTypeServer, GoSprint(MapIndex(payload, "code")),
                  GoSprint(MapIndex(payload, "message")), "", Null)

\* The data arm and the default arm of the switch (they are the same code).
HandleData(frame) ==
    LET payload == decodeStreamPayload(frame)
        t == StringField(payload, "type")
    IN  IF \/ Has(payload, "error") /\ ~IsNil(payload.o["error"])
           \/ t.ok /\ EqualFold(t.s, "error")
        THEN Panic(newExecutionError(0, enrichErrorPayload(EmbeddedError(payload))),
                   "embedded")
        ELSE Handled("return", "chunk", payload, NoErr, FALSE, "")

\* The loop body after the frame is decoded; err is the error the failure arms
\* raise, parseFrameError wrapped as an execution error.
HandleFrame(frame, type, status, err) ==
    IF frame.Error # Absent /\ frame.Error # Null
    THEN Panic(err, "errfield")
    ELSE IF EqualFold(frame.Type, "error")
    THEN Panic(err, "errorframe")
    ELSE IF frame.Status # "" /\ StatusIndicatesFailure(frame.Status)
    THEN Panic(err, "failstatus")
    ELSE CASE type = "status" ->
                (CASE status = "stream_started" -> Continue
                   [] status \in {"error", "stream_error", "failed", "stream_failed"} ->
                        Panic(err, "failstatus")
                   [] status = "stream_completed" ->
                        Handled("return", "eos", Null, NoErr, TRUE, "completed")
                   [] OTHER -> Continue)
           [] type = "error" -> Panic(err, "errorframe")
           [] OTHER -> HandleData(frame)

HandleDecoded(d) ==
    IF ~d.ok
    THEN Handled("return", "error", Null,
                 newError(ErrorTypeServer, "invalid stream message", "", ""),
                 TRUE, "invalid")
    ELSE HandleFrame(d.frame, ToLower(d.frame.Type), ToLower(d.frame.Status),
                     FrameError_(d.frame))

\* One message through the body of Next's loop, after a successful read.
HandleMessage(msg) == HandleDecoded(UnmarshalFrame(msg))

-----------------------------------------------------------------------------
(* Initial values of the three parts of the state.  Each specification     *)
(* below runs one part and leaves the other two at these values.           *)

NoClient ==
    [agentID |-> "", entrypointTag |-> "", local |-> FALSE, baseRESTURL |-> "",
     baseSocketURL |-> "", apiKey |-> "", timeoutSecs |-> 0, asyncDefault |-> FALSE]

\* No request was sent, no response came back.
NoRequest == [method |-> "", url |-> "", auth |-> "", body |-> ""]
NoResponse == [kind |-> "none", status |-> 0, body |-> ""]

ClientIdle ==
    /\ client = NoClient
    /\ httpCalls = 0 /\ wsDials = 0 /\ wsWrites = 0
    /\ lastOp = "" /\ lastArgs = <<>> /\ lastRet = Ret(Null, NoErr)
    /\ lastReq = NoRequest /\ lastResp = NoResponse

NotParsed == [called |-> FALSE, val |-> Null, err |-> NoErr]

ParseIdle == pStatus = 0 /\ pBody = "" /\ pOut = NotParsed

\* coerceToRunInput was not called: no values, the zero RunInput, no error.
NotCoerced ==
    [called |-> FALSE,
     input |-> [InputArgs |-> <<>>, InputKwargs |-> [key \in {} |-> Null],
                TimeoutSeconds |-> 0, AsyncExecution |-> "nil"],
     err |-> NoErr]

CoerceIdle == cValues = <<>> /\ cOut = NotCoerced

\* No constructor ran: the zero Config, an empty environment, no registry.
NoConfig ==
    [AgentID |-> "", EntrypointTag |-> "", Local |-> "nil", Host |-> "", Port |-> 0,
     BaseURL |-> "", APIKey |-> "", TimeoutSeconds |-> 0, AsyncExecution |-> "nil"]
NoEnviron ==
    [RUNAGENT_API_KEY |-> "", RUNAGENT_BASE_URL |-> "", RUNAGENT_HOST |-> "",
     RUNAGENT_PORT |-> "", RUNAGENT_TIMEOUT |-> "", RUNAGENT_LOCAL |-> ""]
NoRegistry == [state |-> "", host |-> "", port |-> 0]

EnvIdle ==
    /\ osEnv = NoEnviron /\ madeCfg = NoConfig /\ madeEnv = NoEnviron
    /\ madeReg = NoRegistry /\ regOpens = 0 /\ regCloses = 0 /\ envChanges = 0

\* No helper was applied.
NoCall == [fn |-> "", status |-> 0, payload |-> NilPayload, text |-> "", obj |-> Null]
FnIdle == fCall = NoCall /\ fRes = Null /\ fPrev = Null /\ fN = 0

PkgIdle == finished = FALSE /\ sErr = NoErr

NoReturn == [ret |-> "none", val |-> Null]
WrapIdle == wrapOut = NoReturn

RestIdle == CoerceIdle /\ EnvIdle /\ FnIdle /\ PkgIdle /\ WrapIdle

NoOutcome == [ret |-> "none", chunk |-> Null, err |-> NoErr]

StreamIdle ==
    /\ closed = FALSE /\ pc = "idle" /\ callCtx = "" /\ ctxDone = FALSE
    /\ incoming = <<>> /\ delivered = 0 /\ history = <<>>
    /\ reads = 0 /\ connCloses = 0 /\ yielded = <<>>
    /\ outcome = NoOutcome /\ termCause = "" /\ termOutcome = NoOutcome

-----------------------------------------------------------------------------
(* ParseSpec: parseRunResponse applied to every status and body of the     *)
(* bounded input sets.                                                     *)

ParseStatuses == {200, 500}

ParseBodies ==
    {Marshal(e) : e \in Envelopes} \cup {Marshal(d) : d \in ScalarDocs}
    \cup PlainTexts \cup {""}

ParseInit == ClientIdle /\ ParseIdle /\ RestIdle /\ StreamIdle

\* One call of the function under test, on inputs drawn from the bounded sets.
ParseCall(status, body) ==
    /\ ~pOut.called
    /\ pStatus' = status
    /\ pBody' = body
    /\ LET r == parseRunResponse(status, body)
       IN  pOut' = [called |-> TRUE, val |-> r.val, err |-> r.err]
    /\ UNCHANGED <<clientVars, restVars, streamVars>>

ParseNext == \E status \in ParseStatuses, body \in ParseBodies : ParseCall(status, body)

ParseSpec == ParseInit /\ [][ParseNext]_vars

\* The decoded body of the call under test, when it is a JSON object.
ParsedEnvelope == Unmarshal(pBody).v
BodyIsObject == Unmarshal(pBody).ok /\ IsObj(Unmarshal(pBody).v)

\* The explicit failure indicator: success is false, or error is not null.
FailureIndicator(envelope) ==
    \/ Has(envelope, "success") /\ envelope.o["success"] = Bool(FALSE)
    \/ Has(envelope, "error") /\ envelope.o["error"] # Null

(* C10: for every JSON-object body that carries the explicit failure       *)
(* indicator (success equal to false, or an error field that is not null), *)
(* parseRunResponse returns an error and no value, whatever else the       *)
(* envelope holds (data, payload, output_data, success:true beside a       *)
(* non-null error).                                                        *)
C10_FailureIndicatorAlwaysError ==
    (pOut.called /\ BodyIsObject /\ FailureIndicator(ParsedEnvelope))
        => (pOut.err.cls = "RunAgentExecutionError" /\ pOut.val = Null)

\* C10 witness: success:true beside a non-null error and a data field.
C10_Witness ==
    /\ pOut.called /\ BodyIsObject
    /\ Has(ParsedEnvelope, "success") /\ ParsedEnvelope.o["success"] = Bool(TRUE)
    /\ Has(ParsedEnvelope, "error") /\ ParsedEnvelope.o["error"] # Null
    /\ Has(ParsedEnvelope, "data") /\ Has(ParsedEnvelope, "output_data")
    /\ pOut.err.cls = "RunAgentExecutionError"

\* The data field is a string, the text of a JSON object with result_data.data.
NestedInString(envelope) ==
    /\ Has(envelope, "data") /\ IsStr(envelope.o["data"])
    /\ Unmarshal(envelope.o["data"].s).ok
    /\ LET d == Unmarshal(envelope.o["data"].s).v
       IN  /\ IsObj(d) /\ Has(d, "result_data")
           /\ IsObj(d.o["result_data"]) /\ Has(d.o["result_data"], "data")
NestedValue(envelope) ==
    Unmarshal(envelope.o["data"].s).v.o["result_data"].o["data"]

(* C11, as stated: for an envelope (without failure indicator) whose data  *)
(* field is a JSON-encoded string of an object containing                  *)
(* result_data.data, parseRunResponse returns exactly that nested value,   *)
(* not the decoded outer object.                                           *)
C11_StringDataYieldsNested ==
    (/\ pOut.called /\ BodyIsObject /\ ~FailureIndicator(ParsedEnvelope)
     /\ NestedInString(ParsedEnvelope))
        => (pOut.err = NoErr /\ pOut.val = NestedValue(ParsedEnvelope))

\* What the data branch alone makes of a data field.
DataResult(data) ==
    LET result == unwrapDataField(data)
    IN  IF IsObj(result) THEN decodeStructuredObject(result) ELSE result

\* The branch the claimed order selects: data when present, else payload,
\* else output_data, else the whole envelope.
SelectedBranch(envelope) ==
    IF Has(envelope, "data") THEN DataResult(envelope.o["data"])
    ELSE IF Has(envelope, "payload")
    THEN IF IsStr(envelope.o["payload"])
         THEN decodeStructuredString(envelope.o["payload"].s)
         ELSE envelope.o["payload"]
    ELSE IF Has(envelope, "output_data") THEN envelope.o["output_data"]
    ELSE envelope

(* C14, as stated: for an envelope without failure indicator the result is *)
(* that of the first branch whose field is present, in the order data,     *)
(* payload, output_data, whole envelope; a present data field decides      *)
(* alone, also when it is null or unwraps to null, and no lower branch is  *)
(* consulted.                                                              *)
C14_FirstPresentBranchDecides ==
    (pOut.called /\ BodyIsObject /\ ~FailureIndicator(ParsedEnvelope))
        => (pOut.err = NoErr /\ pOut.val = SelectedBranch(ParsedEnvelope))


-----------------------------------------------------------------------------
(* StreamSpec: one StreamIterator on an open connection, one caller that   *)
(* calls Next and Close, a server that sends messages, and a context that  *)
(* may be cancelled at any moment.                                         *)

MaxFrames == 4      \* messages the server sends on one stream
MaxBuffered == 2    \* messages the connection holds unread

\* What conn.ReadMessage may deliver: a message, or a read failure.
Msg(text) == [kind |-> "msg", text |-> text]
ReadFailure == [kind |-> "err", text |-> ""]

ServerMessages ==
    {Msg(Marshal(f)) : f \in {FrameStarted, FrameCompleted, FrameFailed,
                              FrameHeartbeat, FrameDataA, FrameDataNum,
                              FrameDataObj, FrameError, FrameErrorOnly,
                              FrameEmbedded}}
    \cup {Msg("hello"), ReadFailure}

\* The contexts a caller passes to Next.
Contexts == {"background", "cancellable"}
Done(ctx) == ctx = "cancellable" /\ ctxDone

\* Data frames and frames of an unknown type, with and without an error
\* inside what they carry.
PayloadMessages ==
    {Msg(Marshal(f)) : f \in {FrameDataA, FrameDataObj, FrameUnknown, FrameEmbedded,
                              FrameEmbeddedText, FrameTypeError, FrameErrorNull,
                              FrameNested}}

\* HandleMessage is a function of the message alone: it is evaluated once
\* for each message of the model.
Handling ==
    [text \in {m.text : m \in {x \in ServerMessages \cup PayloadMessages :
                                  x.kind = "msg"}} |->
        HandleMessage(text)]

StreamInit == ClientIdle /\ ParseIdle /\ RestIdle /\ StreamIdle

Out(ret, chunk, err) == [ret |-> ret, chunk |-> chunk, err |-> err]

\* Close without the closed check: the connection is closed at every call.
CloseIterator_Always(cause, out) ==
    /\ closed' = TRUE
    /\ connCloses' = connCloses + 1
    /\ termCause' = IF closed THEN termCause ELSE cause
    /\ termOutcome' = IF closed THEN termOutcome ELSE out

\* s.Close(): the connection is closed unless the iterator is closed already.
CloseIterator(cause, out) ==
    /\ closed' = TRUE
    /\ connCloses' = IF closed THEN connCloses ELSE connCloses + 1
    /\ termCause' = IF closed THEN termCause ELSE cause
    /\ termOutcome' = IF closed THEN termOutcome ELSE out

\* Next without the closed check at its start.
NextBegin_NoClosedCheck(ctx) ==
    /\ pc = "idle"
    /\ callCtx' = ctx
    /\ pc' = "select"
    /\ UNCHANGED <<closed, ctxDone, incoming, delivered, history, reads,
                   connCloses, yielded, termCause, termOutcome, outcome>>
    /\ UNCHANGED <<clientVars, parseVars, restVars>>

\* Next is called: a closed iterator returns (nil, false, nil) at once.
\* (the iterator's own part of the step; its callers add what else holds)
NextEntry(ctx) ==
    /\ pc = "idle"
    /\ callCtx' = ctx
    /\ IF closed
       THEN /\ outcome' = Out("eos", Null, NoErr)
            /\ pc' = "idle"
       ELSE /\ pc' = "select"
            /\ UNCHANGED outcome
    /\ UNCHANGED <<closed, ctxDone, incoming, delivered, history, reads,
                   connCloses, yielded, termCause, termOutcome>>

NextBegin(ctx) ==
    /\ NextEntry(ctx)
    /\ UNCHANGED <<clientVars, parseVars, restVars>>

\* The loop without the select: Next goes straight to the read.
NextSelect_NoCheck ==
    /\ pc = "select"
    /\ pc' = "read"
    /\ UNCHANGED <<closed, connCloses, termCause, termOutcome, outcome>>
    /\ UNCHANGED <<callCtx, ctxDone, incoming, delivered, history, reads, yielded>>
    /\ UNCHANGED <<clientVars, parseVars, restVars>>

\* The select at the top of the loop: a cancelled context ends the call.
\* (the iterator's own part of the step)
NextSelectArm ==
    /\ pc = "select"
    /\ IF Done(callCtx)
       THEN /\ CloseIterator("cancel", Out("error", Null, ContextCanceled))
            /\ outcome' = Out("error", Null, ContextCanceled)
            /\ pc' = "idle"
       ELSE /\ pc' = "read"
            /\ UNCHANGED <<closed, connCloses, termCause, termOutcome, outcome>>
    /\ UNCHANGED <<callCtx, ctxDone, incoming, delivered, history, reads, yielded>>

NextSelect ==
    /\ NextSelectArm
    /\ UNCHANGED <<clientVars, parseVars, restVars>>

\* conn.ReadMessage returns (it blocks while nothing has arrived), and the
\* rest of the loop body handles what it returned.
\* (the iterator's own part of the step)
NextReadArm ==
    /\ pc = "read"
    /\ incoming # <<>>
    /\ reads' = reads + 1
    /\ incoming' = Tail(incoming)
    /\ \E h \in {IF Head(incoming).kind = "err"
                 THEN Handled("return", "error", Null,
                              newError(ErrorTypeConnection,
                                       "failed to read stream message", "", ""),
                              TRUE, "readerr")
                 ELSE Handling[Head(incoming).text]} :
           /\ IF h.step = "continue"
              THEN pc' = "select" /\ UNCHANGED outcome
              ELSE pc' = "idle" /\ outcome' = Out(h.ret, h.chunk, h.err)
           /\ IF h.close
              THEN CloseIterator(h.cause, Out(h.ret, h.chunk, h.err))
              ELSE UNCHANGED <<closed, connCloses, termCause, termOutcome>>
           /\ yielded' = IF h.ret = "chunk" THEN Append(yielded, h.chunk) ELSE yielded
    /\ UNCHANGED <<callCtx, ctxDone, delivered, history>>

NextRead ==
    /\ NextReadArm
    /\ UNCHANGED <<clientVars, parseVars, restVars>>

\* The caller calls Close between two Next calls.
Close ==
    /\ pc = "idle"
    /\ CloseIterator("close", NoOutcome)
    /\ UNCHANGED <<pc, callCtx, ctxDone, incoming, delivered, history, reads,
                   yielded, outcome>>
    /\ UNCHANGED <<clientVars, parseVars, restVars>>

\* The context is cancelled (by the caller's cancel function or a deadline).
Cancel ==
    /\ ~ctxDone
    /\ ctxDone' = TRUE
    /\ UNCHANGED <<closed, pc, callCtx, incoming, delivered, history, reads,
                   connCloses, yielded, outcome, termCause, termOutcome>>
    /\ UNCHANGED <<clientVars, parseVars, restVars>>

\* The server sends a message, or the connection breaks; nothing arrives after
\* a read failure.
Deliver(m) ==
    /\ delivered < MaxFrames
    /\ Len(incoming) < MaxBuffered
    /\ IF history = <<>> THEN TRUE ELSE history[Len(history)] # ReadFailure
    /\ incoming' = Append(incoming, m)
    /\ history' = Append(history, m)
    /\ delivered' = delivered + 1
    /\ UNCHANGED <<closed, pc, callCtx, ctxDone, reads, connCloses, yielded,
                   outcome, termCause, termOutcome>>
    /\ UNCHANGED <<clientVars, parseVars, restVars>>

StreamNext ==
    \/ \E ctx \in Contexts : NextBegin(ctx)
    \/ NextSelect
    \/ NextRead
    \/ Close
    \/ Cancel
    \/ \E m \in ServerMessages : Deliver(m)

StreamSpec == StreamInit /\ [][StreamNext]_vars

-----------------------------------------------------------------------------
(* Properties of the StreamIterator, checked under StreamSpec.             *)

MsgStarted   == Msg(Marshal(FrameStarted))
MsgCompleted == Msg(Marshal(FrameCompleted))
MsgFailed    == Msg(Marshal(FrameFailed))
MsgHeartbeat == Msg(Marshal(FrameHeartbeat))
MsgError     == Msg(Marshal(FrameError))

\* The string contents of the data frames of the model, and their messages.
StringContents == {"a", Marshal(Num(1)), Marshal(XObj)}
DataMsgs ==
    [c \in StringContents |->
        Msg(Marshal(Obj([type |-> Str("data"), content |-> Str(c)])))]
IsDataMsg(m) == \E c \in StringContents : DataMsgs[c] = m
ContentOf(m) == CHOOSE c \in StringContents : DataMsgs[c] = m

EndOfStream == Out("eos", Null, NoErr)
CancellationError == Out("error", Null, ContextCanceled)

\* The iterator has read stream_started, then data frames with string
\* contents only, then stream_completed.
CompletedRun ==
    /\ termCause = "completed"
    /\ reads >= 2
    /\ history[1] = MsgStarted
    /\ history[reads] = MsgCompleted
    /\ \A i \in 2..(reads - 1) : IsDataMsg(history[i])

(* C3, as stated: a run stream_started, data c1..cn, stream_completed       *)
(* yields exactly the strings c1..cn in arrival order and then              *)
(* end-of-stream without error.                                            *)
C3_YieldsContentsVerbatim ==
    CompletedRun =>
        /\ Len(yielded) = reads - 2
        /\ \A i \in 1..Len(yielded) : yielded[i] = Str(ContentOf(history[i + 1]))
        /\ termOutcome = EndOfStream

(* C3, amended: such a run yields one chunk for each data frame, in        *)
(* arrival order, and then end-of-stream without error; the chunk is the    *)
(* string ci when ci is not a JSON document, and the value ci decodes to    *)
(* when it is one (an object with a payload field is normalized further).   *)
C3_YieldsContentsDecoded ==
    CompletedRun =>
        /\ Len(yielded) = reads - 2
        /\ \A i \in 1..Len(yielded) :
              LET c == ContentOf(history[i + 1])
              IN  IF c \in JsonTexts
                  THEN \E p \in JsonPairs :
                          /\ p[1] = c
                          /\ (IsObj(p[2]) /\ Has(p[2], "payload")) \/ yielded[i] = p[2]
                  ELSE yielded[i] = Str(c)
        /\ termOutcome = EndOfStream

\* C3 witness: a completed run of two data frames, the second of them with a
\* content that is a JSON document.
C3_Witness ==
    /\ CompletedRun /\ reads = 4 /\ pc = "idle" /\ outcome = EndOfStream
    /\ history[2] = DataMsgs["a"] /\ history[3] = DataMsgs[Marshal(Num(1))]
    /\ yielded = <<Str("a"), Num(1)>>

\* The class a raised failure carries: the type of a returned error, or the
\* type the panic message names.
RaisedAs(out, kind) ==
    \/ out.ret = "error" /\ out.err.Type = kind
    \/ out.ret = "panic" /\ Contains(out.chunk.s, "(" \o kind \o ")")

C5_FailuresAreReturned ==
    /\ outcome.ret # "panic"
    /\ termCause \in {"errfield", "errorframe", "failstatus", "embedded",
                      "readerr", "invalid", "cancel"}
          => termOutcome.ret = "error"

(* C6: once the iterator is closed it stays closed; a later Next call       *)
(* returns end-of-stream without error whatever its context, nothing is     *)
(* read and the connection is not closed again.                            *)
C6_TerminalIsAbsorbing ==
    [][ closed => /\ closed' /\ pc' = "idle"
                  /\ reads' = reads /\ yielded' = yielded
                  /\ connCloses' = connCloses
                  /\ termCause' = termCause /\ termOutcome' = termOutcome
                  /\ outcome' # outcome => outcome' = EndOfStream
      ]_vars

\* C6 witness: after a failure, Next called with a cancelled context returned
\* end-of-stream and left an arrived frame unread.
C6_Witness ==
    /\ closed /\ termCause = "errorframe" /\ termOutcome.ret = "panic"
    /\ callCtx = "cancellable" /\ ctxDone /\ outcome = EndOfStream
    /\ incoming # <<>> /\ connCloses = 1

\* The Next call has ended on a terminal path.
TerminalOutcome == outcome.ret \in {"eos", "error", "panic"}

(* C7: the connection is never closed more than once, and it has been       *)
(* closed exactly once whenever a terminal path was taken.                  *)
C7_ClosedExactlyOnce ==
    /\ connCloses <= 1
    /\ closed <=> connCloses = 1
    /\ closed <=> termCause # ""
    /\ TerminalOutcome => closed

\* C7 witness: a stream ended by cancellation after a chunk.
C7_Witness ==
    /\ termCause = "cancel" /\ connCloses = 1 /\ Len(yielded) = 1
    /\ outcome = EndOfStream /\ reads = 2

(* C8: reaching the select with a cancelled context, Next closes the        *)
(* connection and returns the cancellation error without reading; every     *)
(* read is entered from a select that found the context live, and a read    *)
(* that skips its frame goes back to the select.                           *)
C8_CancelledBeforeRead ==
    [][ /\ (pc = "select" /\ Done(callCtx) /\ pc' # "select")
           => (/\ outcome' = CancellationError /\ pc' = "idle"
               /\ closed' /\ connCloses' = connCloses + 1
               /\ reads' = reads /\ incoming' = incoming)
        /\ (pc' = "read" /\ pc # "read") => (pc = "select" /\ ~Done(callCtx))
        /\ (reads' # reads) => (pc = "read" /\ pc' \in {"select", "idle"})
      ]_vars

\* C8 witness: one Next call skipped two status frames and was cancelled
\* before its third read, with a frame waiting.
C8_Witness ==
    /\ termCause = "cancel" /\ outcome = CancellationError
    /\ reads = 2 /\ history[1] = MsgStarted /\ history[2] = MsgHeartbeat
    /\ yielded = <<>> /\ incoming # <<>>

(* C9, as stated: a Next call blocked in its read, no frame arriving, can   *)
(* return once the context is cancelled.                                   *)
C9_BlockedNextReturnsOnCancel ==
    (pc = "read" /\ incoming = <<>> /\ Done(callCtx))
        => ENABLED (NextSelect \/ NextRead)

-----------------------------------------------------------------------------
(* The client facade: configuration resolution.                             *)

DefaultBaseURL == "https://backend.run-agent.ai"
DefaultAPIPrefix == "/api/v1"
DefaultTimeoutSeconds == 300
DefaultStreamTimeout == 600

TrimSuffix(s, suffix) ==
    IF HasSuffix(s, suffix) THEN SubSeq(s, 1, Len(s) - Len(suffix)) ELSE s
TrimPrefix(s, prefix) ==
    IF HasPrefix(s, prefix) THEN SubSeq(s, Len(prefix) + 1, Len(s)) ELSE s

IsDigit(c) == c # "" /\ Contains(Digits, c)
DigitValue(c) == CHOOSE d \in 0..9 : CharAt(Digits, d + 1) = c

\* strconv.Atoi on an unsigned decimal: digits only, at least one.
RECURSIVE AllDigits(_)
AllDigits(s) == s = "" \/ (IsDigit(CharAt(s, 1)) /\ AllDigits(SubSeq(s, 2, Len(s))))
RECURSIVE DigitsValue(_)
DigitsValue(s) ==
    IF s = "" THEN 0
    ELSE 10 * DigitsValue(SubSeq(s, 1, Len(s) - 1)) + DigitValue(CharAt(s, Len(s)))
Atoi(s) ==
    IF s # "" /\ AllDigits(s) THEN [ok |-> TRUE, n |-> DigitsValue(s)]
    ELSE IF Len(s) >= 2 /\ CharAt(s, 1) = "+" /\ AllDigits(SubSeq(s, 2, Len(s)))
    THEN [ok |-> TRUE, n |-> DigitsValue(SubSeq(s, 2, Len(s)))]
    ELSE IF Len(s) >= 2 /\ CharAt(s, 1) = "-" /\ AllDigits(SubSeq(s, 2, Len(s)))
    THEN [ok |-> TRUE, n |-> 0 - DigitsValue(SubSeq(s, 2, Len(s)))]
    ELSE [ok |-> FALSE, n |-> 0]

\* strconv.ParseBool; a *bool is "nil", "true" or "false".
ParseBool(s) ==
    IF s \in {"1", "t", "T", "TRUE", "true", "True"} THEN "true"
    ELSE IF s \in {"0", "f", "F", "FALSE", "false", "False"} THEN "false"
    ELSE "nil"

\* The process environment: the raw values of the RUNAGENT_* variables.
loadEnvConfig(env) ==
    [apiKey |-> TrimSpace(env.RUNAGENT_API_KEY),
     baseURL |-> TrimSpace(env.RUNAGENT_BASE_URL),
     host |-> TrimSpace(env.RUNAGENT_HOST),
     port |-> IF Atoi(env.RUNAGENT_PORT).ok THEN Atoi(env.RUNAGENT_PORT).n ELSE 0,
     timeoutSeconds |->
        IF Atoi(env.RUNAGENT_TIMEOUT).ok THEN Atoi(env.RUNAGENT_TIMEOUT).n ELSE 0,
     local |-> ParseBool(env.RUNAGENT_LOCAL)]

resolveBool(explicit, fallback, defaultValue) ==
    IF explicit # "nil" THEN explicit = "true"
    ELSE IF fallback # "nil" THEN fallback = "true"
    ELSE defaultValue

RECURSIVE firstNonEmpty(_)
firstNonEmpty(values) ==
    IF values = <<>> THEN ""
    ELSE IF TrimSpace(Head(values)) # "" THEN TrimSpace(Head(values))
    ELSE firstNonEmpty(Tail(values))

RECURSIVE firstNonZero(_)
firstNonZero(values) ==
    IF values = <<>> THEN 0
    ELSE IF Head(values) > 0 THEN Head(values)
    ELSE firstNonZero(Tail(values))

\* discoverLocalAgent taking a missing agent for an empty answer.
discoverLocalAgent_MissingIsEmpty(agentID, registry) ==
    CASE registry.state = "unavailable" ->
            [host |-> "", port |-> 0,
             err |-> newError(ErrorTypeConnection,
                              "failed to open local agent registry", "", "")]
      [] registry.state = "lookupfail" ->
            [host |-> "", port |-> 0,
             err |-> newError(ErrorTypeServer,
                              "failed to lookup agent in local database", "", "")]
      [] OTHER -> [host |-> registry.host, port |-> registry.port, err |-> NoErr]

\* The local agent registry as discoverLocalAgent finds it: state is "found",
\* "missing" (no such agent), "lookupfail" or "unavailable" (it cannot be opened).
discoverLocalAgent(agentID, registry) ==
    CASE registry.state = "unavailable" ->
            [host |-> "", port |-> 0,
             err |-> newError(ErrorTypeConnection,
                              "failed to open local agent registry", "", "")]
      [] registry.state = "lookupfail" ->
            [host |-> "", port |-> 0,
             err |-> newError(ErrorTypeServer,
                              "failed to lookup agent in local database", "", "")]
      [] registry.state = "missing" ->
            [host |-> "", port |-> 0,
             err |-> newError(ErrorTypeValidation,
                              "agent " \o agentID \o " was not found locally", "",
                              "Start the agent locally or pass host/port overrides")]
      [] OTHER -> [host |-> registry.host, port |-> registry.port, err |-> NoErr]

normalizeRemoteBases(raw0) ==
    LET raw1 == IF raw0 = "" THEN DefaultBaseURL ELSE raw0
        raw == IF ~HasPrefix(raw1, "http://") /\ ~HasPrefix(raw1, "https://")
               THEN "https://" \o raw1 ELSE raw1
        trimmed == TrimSuffix(raw, "/")
    IN  IF HasPrefix(trimmed, "https://")
        THEN [rest |-> trimmed \o DefaultAPIPrefix,
              socket |-> "wss://" \o TrimPrefix(trimmed, "https://") \o DefaultAPIPrefix,
              err |-> NoErr]
        ELSE IF HasPrefix(trimmed, "http://")
        THEN [rest |-> trimmed \o DefaultAPIPrefix,
              socket |-> "ws://" \o TrimPrefix(trimmed, "http://") \o DefaultAPIPrefix,
              err |-> NoErr]
        ELSE [rest |-> "", socket |-> "",
              err |-> newError(ErrorTypeValidation, "invalid base URL: " \o raw, "", "")]

Constructed(c, err) == [client |-> c, err |-> err]

\* The local branch of the constructor: host and port, then the two bases.
LocalBases(cfg, env, found) ==
    LET host0 == firstNonEmpty(<<cfg.Host, env.host>>)
        port0 == firstNonZero(<<cfg.Port, env.port>>)
        discover == host0 = "" \/ port0 = 0
        host == IF discover /\ host0 = "" THEN found.host ELSE host0
        port == IF discover /\ port0 = 0 THEN found.port ELSE port0
    IN  IF discover /\ found.err # NoErr
        THEN [rest |-> "", socket |-> "", err |-> found.err]
        ELSE IF host = "" \/ port = 0
        THEN [rest |-> "", socket |-> "",
              err |-> newError(ErrorTypeValidation, "unable to resolve local host/port",
                               "", "Pass Config.Host/Config.Port or ensure the agent is registered locally")]
        ELSE [rest |-> "http://" \o host \o ":" \o Itoa(port) \o DefaultAPIPrefix,
              socket |-> "ws://" \o host \o ":" \o Itoa(port) \o DefaultAPIPrefix,
              err |-> NoErr]

ResolveTimeout(cfg, env) ==
    IF cfg.TimeoutSeconds > 0 THEN cfg.TimeoutSeconds
    ELSE IF env.timeoutSeconds > 0 THEN env.timeoutSeconds
    ELSE DefaultTimeoutSeconds

NewClient(cfg, env, local, bases) ==
    IF bases.err # NoErr THEN Constructed(NoClient, bases.err)
    ELSE Constructed(
            [agentID |-> cfg.AgentID, entrypointTag |-> cfg.EntrypointTag,
             local |-> local, baseRESTURL |-> bases.rest,
             baseSocketURL |-> bases.socket,
             apiKey |-> firstNonEmpty(<<cfg.APIKey, env.apiKey>>),
             timeoutSecs |-> ResolveTimeout(cfg, env),
             asyncDefault |-> resolveBool(cfg.AsyncExecution, "nil", FALSE)],
            NoErr)

ResolveBases(cfg, env, registry, local) ==
    IF local
    THEN LocalBases(cfg, env, discoverLocalAgent(cfg.AgentID, registry))
    ELSE normalizeRemoteBases(firstNonEmpty(<<cfg.BaseURL, env.baseURL, DefaultBaseURL>>))

ResolveClient(cfg, env, registry, local) ==
    NewClient(cfg, env, local, ResolveBases(cfg, env, registry, local))

NewRunAgentClient(cfg, environ, registry) ==
    IF TrimSpace(cfg.AgentID) = ""
    THEN Constructed(NoClient, newError(ErrorTypeValidation, "agent_id is required", "", ""))
    ELSE IF TrimSpace(cfg.EntrypointTag) = ""
    THEN Constructed(NoClient,
                     newError(ErrorTypeValidation, "entrypoint_tag is required", "", ""))
    ELSE ResolveClient(cfg, loadEnvConfig(environ), registry,
                       resolveBool(cfg.Local, loadEnvConfig(environ).local, FALSE))

-----------------------------------------------------------------------------
(* The client facade: arguments and requests.                               *)

\* A Go value encoding/json cannot serialize (a channel).
Chan == [k |-> "chan"]

RECURSIVE Serializes(_)
Serializes(v) ==
    CASE v.k = "chan" -> FALSE
      [] v.k = "obj"  -> \A key \in DOMAIN v.o : Serializes(v.o[key])
      [] v.k = "arr"  -> \A i \in DOMAIN v.a : Serializes(v.a[i])
      [] OTHER -> TRUE

\* The argument tokens of Run and RunStream.
Arg(v) == [t |-> "arg", v |-> v]
Args(vs) == [t |-> "args", vs |-> vs]
Kw(key, value) == [t |-> "kw", key |-> key, v |-> value]
Kws(m) == [t |-> "kws", m |-> m]
\* a raw []any, and any other value that is no token, map or struct
RawSlice(vs) == [t |-> "slice", vs |-> vs]
\* a slice whose element type is no interface ([]string, []int, ...); v is
\* the value it is as an argument
TypedSlice(vs) == [t |-> "typedslice", v |-> Arr(vs)]
\* reflect: Kind() == Slice and Type().Elem().Kind() == Interface
isSliceOfAny(v) == v.t = "slice"
\* a raw map[string]any, and a struct: m is what structToMap makes of it, ok
\* whether its json round trip succeeds
RawMap(m) == [t |-> "map", m |-> m]
Struct(m, ok) == [t |-> "struct", m |-> m, ok |-> ok]
Plain(v) == [t |-> "plain", v |-> v]

NoKwargs == [key \in {} |-> Null]

\* addKw that keeps the value a key already has.
MergeKw_FirstWins(kwargs, m) ==
    [key \in DOMAIN kwargs \cup DOMAIN m |->
        IF key \in DOMAIN kwargs THEN kwargs[key] ELSE m[key]]

\* addKw over every entry of m.
MergeKw(kwargs, m) ==
    [key \in DOMAIN kwargs \cup DOMAIN m |->
        IF key \in DOMAIN m THEN m[key] ELSE kwargs[key]]

RunInputOf(args, kwargs) ==
    [InputArgs |-> args, InputKwargs |-> kwargs, TimeoutSeconds |-> 0,
     AsyncExecution |-> "nil"]

Coerced(input, err) == [input |-> input, err |-> err]

RECURSIVE CoerceFrom(_, _, _)
CoerceFrom(values, args, kwargs) ==
    IF values = <<>> THEN Coerced(RunInputOf(args, kwargs), NoErr)
    ELSE LET v == Head(values)
         IN  CASE v.t = "arg"  -> CoerceFrom(Tail(values), Append(args, v.v), kwargs)
               [] v.t = "args" -> CoerceFrom(Tail(values), args \o v.vs, kwargs)
               [] v.t = "kw"   ->
                    CoerceFrom(Tail(values), args,
                               MergeKw(kwargs, [key \in {v.key} |-> v.v]))
               [] v.t \in {"kws", "map"} ->
                    CoerceFrom(Tail(values), args, MergeKw(kwargs, v.m))
               [] v.t = "struct" ->
                    IF v.ok
                    THEN CoerceFrom(Tail(values), args, MergeKw(kwargs, v.m))
                    ELSE Coerced(RunInputOf(<<>>, NoKwargs),
                                 newError(ErrorTypeValidation,
                                          "failed to encode struct into kwargs", "", ""))
               [] isSliceOfAny(v) ->
                    Coerced(RunInputOf(<<>>, NoKwargs),
                            newError(ErrorTypeValidation,
                                     "pass positional slice via Args(...), not raw []any",
                                     "", "Use runagent.Args(v1, v2, ...)"))
               [] OTHER -> CoerceFrom(Tail(values), Append(args, v.v), kwargs)

coerceToRunInput(values) == CoerceFrom(values, <<>>, NoKwargs)

toAPIPayload(i, entrypoint, fallbackTimeout, defaultAsync) ==
    [EntrypointTag |-> entrypoint,
     InputArgs |-> i.InputArgs,
     InputKwargs |-> i.InputKwargs,
     TimeoutSeconds |-> IF i.TimeoutSeconds > 0 THEN i.TimeoutSeconds
                        ELSE fallbackTimeout,
     AsyncExecution |-> IF i.AsyncExecution # "nil" THEN i.AsyncExecution = "true"
                        ELSE defaultAsync]

\* json.Marshal of an apiRunRequest: the fields in the order of the struct,
\* async_execution left out when false.
MarshalRequest(payload) ==
    "{\"entrypoint_tag\":" \o Quote(payload.EntrypointTag)
    \o ",\"input_args\":" \o Marshal(Arr(payload.InputArgs))
    \o ",\"input_kwargs\":" \o Marshal(Obj(payload.InputKwargs))
    \o ",\"timeout_seconds\":" \o Itoa(payload.TimeoutSeconds)
    \o (IF payload.AsyncExecution THEN ",\"async_execution\":true" ELSE "")
    \o "}"

RequestSerializes(payload) ==
    Serializes(Arr(payload.InputArgs)) /\ Serializes(Obj(payload.InputKwargs))

(* package net/url *)
IsHex(c) == c # "" /\ Contains("0123456789abcdefABCDEF", c)

\* url.Parse fails on a percent sign that does not start an escape.
RECURSIVE URLParses(_)
URLParses(u) ==
    IF u = "" THEN TRUE
    ELSE IF CharAt(u, 1) = "%"
    THEN /\ Len(u) >= 3 /\ IsHex(CharAt(u, 2)) /\ IsHex(CharAt(u, 3))
         /\ URLParses(SubSeq(u, 4, Len(u)))
    ELSE URLParses(SubSeq(u, 2, Len(u)))

\* url.QueryEscape on the characters of the keys of the model.
QueryEscapeChar(c) ==
    CASE c = " " -> "+"
      [] c = "&" -> "%26"
      [] c = "=" -> "%3D"
      [] c = "+" -> "%2B"
      [] c = "/" -> "%2F"
      [] OTHER -> c
RECURSIVE QueryEscape(_)
QueryEscape(q) ==
    IF q = "" THEN ""
    ELSE QueryEscapeChar(CharAt(q, 1)) \o QueryEscape(SubSeq(q, 2, Len(q)))

appendToken(uri, token) ==
    IF token = "" THEN uri
    ELSE IF ~URLParses(uri) THEN uri
    ELSE uri \o "?token=" \o QueryEscape(token)

\* The entrypoint-kind test with the suffix compared as it is written.
streamEntrypoint_CaseSensitive(tag) ==
    \/ tag = "generic_stream"
    \/ tag = "stream"
    \/ HasSuffix(tag, "_stream")

\* The entrypoint-kind test both guardrails make.
streamEntrypoint(tag) ==
    \/ tag = "generic_stream"
    \/ tag = "stream"
    \/ HasSuffix(ToLower(tag), "_stream")

-----------------------------------------------------------------------------
(* The client facade: Run, RunStream and GetArchitecture.                   *)

\* What the transport double answers: a failure of the call ("neterr"), a
\* response whose body cannot be read ("bodyerr"), or a response.
NetError == [kind |-> "neterr", status |-> 0, body |-> ""]
BodyError(status) == [kind |-> "bodyerr", status |-> status, body |-> ""]
Response(status, body) == [kind |-> "resp", status |-> status, body |-> body]

\* What the WebSocket double does with the dial and the first write.
Dialed(kind) == [kind |-> kind, status |-> 0, body |-> ""]

\* The result of an operation: what it returns, how often it invoked the
\* HTTP transport, the dialer and the connection's write, and the request.
Local(err) ==
    [ret |-> Ret(Null, err), http |-> 0, dials |-> 0, writes |-> 0,
     req |-> NoRequest]
\* A request that is issued a second time.
Sent_Retried(ret, req) ==
    [ret |-> ret, http |-> 2, dials |-> 0, writes |-> 0, req |-> req]

Sent(ret, req) ==
    [ret |-> ret, http |-> 1, dials |-> 0, writes |-> 0, req |-> req]
Streamed(ret, writes, req) ==
    [ret |-> ret, http |-> 0, dials |-> 1, writes |-> writes, req |-> req]

\* Remote calls need a credential.
missingCredential_Never(c) == FALSE

missingCredential(c) == ~c.local /\ c.apiKey = ""

ResponseStatuses == {200, 201, 299, 300, 401, 403, 404, 500}
ResponseBodies ==
    {Marshal(Obj([success |-> Bool(TRUE), data |-> XObj])),
     Marshal(Obj([success |-> Bool(FALSE), error |-> ErrObjTyped])),
     Marshal(Obj([success |-> Bool(FALSE), error |-> ErrObjAlien])),
     "hello"}

\* Every response read is parsed as a result, whatever its status.
RunAnswer_AlwaysParse(status, body) == parseRunResponse(status, body)

\* What Run makes of a response it has read.
RunAnswer(status, body) ==
    IF status # 200 THEN Ret(Null, translateHTTPError(status, body))
    ELSE parseRunResponse(status, body)

\* RunAnswer is a function of the response alone: it is evaluated once for
\* each response of the model.
RunAnswers ==
    [status \in ResponseStatuses, body \in ResponseBodies |-> RunAnswer(status, body)]

RunReturn(t) ==
    CASE t.kind = "neterr" ->
            Ret(Null, newError(ErrorTypeConnection, "failed to reach RunAgent service",
                               "", "Check your network connection or agent status"))
      [] t.kind = "bodyerr" ->
            Ret(Null, newError(ErrorTypeUnknown, "failed to read response body", "", ""))
      [] OTHER -> RunAnswers[t.status, t.body]

RunCall(c, values, t) ==
    LET coerced == coerceToRunInput(values)
        payload == toAPIPayload(coerced.input, c.entrypointTag, c.timeoutSecs,
                                c.asyncDefault)
        endpoint == c.baseRESTURL \o "/agents/" \o c.agentID \o "/run"
    IN  IF streamEntrypoint(c.entrypointTag)
        THEN Local(newError(ErrorTypeValidation,
                            "stream entrypoint must be invoked with RunStream",
                            "STREAM_ENTRYPOINT",
                            "Use client.RunStream(...) for *_stream tags"))
        ELSE IF coerced.err # NoErr THEN Local(coerced.err)
        ELSE IF ~RequestSerializes(payload)
        THEN Local(newError(ErrorTypeValidation, "failed to serialize request", "", ""))
        ELSE IF ~URLParses(endpoint)
        THEN Local(newError(ErrorTypeUnknown, "failed to create request", "", ""))
        ELSE IF missingCredential(c)
        THEN Local(newError(ErrorTypeAuthentication,
                            "api_key is required for remote runs", "",
                            "Set RUNAGENT_API_KEY or pass Config.APIKey"))
        ELSE Sent(RunReturn(t),
                  [method |-> "POST", url |-> endpoint,
                   auth |-> IF c.local THEN "" ELSE "Bearer " \o c.apiKey,
                   body |-> MarshalRequest(payload)])

\* The value RunStream returns when the stream is open.
IteratorValue == [k |-> "iterator"]

RunStreamReturn(t) ==
    CASE t.kind = "dialfail" ->
            Ret(Null, newError(ErrorTypeConnection,
                               "failed to open WebSocket connection", "", ""))
      [] t.kind = "writefail" ->
            Ret(Null, newError(ErrorTypeConnection,
                               "failed to send stream bootstrap payload", "", ""))
      [] OTHER -> Ret(IteratorValue, NoErr)

RunStreamCall(c, values, t) ==
    LET coerced == coerceToRunInput(values)
        payload == toAPIPayload(coerced.input, c.entrypointTag,
                                DefaultStreamTimeout, FALSE)
        endpoint == c.baseSocketURL \o "/agents/" \o c.agentID \o "/run-stream"
        \* the dialer parses the URL first: no connection to a malformed one
        dial == IF URLParses(endpoint) THEN t ELSE Dialed("dialfail")
    IN  IF ~streamEntrypoint(c.entrypointTag)
        THEN Local(newError(ErrorTypeValidation,
                            "non-stream entrypoint must be invoked with Run",
                            "NON_STREAM_ENTRYPOINT",
                            "Use client.Run(...) for non-stream tags"))
        ELSE IF coerced.err # NoErr THEN Local(coerced.err)
        ELSE IF ~RequestSerializes(payload)
        THEN Local(newError(ErrorTypeValidation,
                            "failed to serialize stream payload", "", ""))
        ELSE IF missingCredential(c)
        THEN Local(newError(ErrorTypeAuthentication,
                            "api_key is required for remote streaming", "",
                            "Set RUNAGENT_API_KEY or pass Config.APIKey"))
        ELSE Streamed(RunStreamReturn(dial),
                      IF dial.kind = "dialfail" THEN 0 ELSE 1,
                      [method |-> "GET",
                       url |-> IF ~c.local /\ c.apiKey # ""
                               THEN appendToken(endpoint, c.apiKey) ELSE endpoint,
                       auth |-> "",
                       body |-> IF dial.kind = "dialfail" THEN ""
                                ELSE MarshalRequest([payload EXCEPT !.AsyncExecution = FALSE])])

\* json.Unmarshal into an EntryPoint, a []EntryPoint and the struct that
\* holds agent_id and entrypoints: whether the value decodes.
EntryPointDecodes(e) ==
    \/ IsNil(e)
    \/ /\ IsObj(e)
       /\ \A key \in {"file", "module", "tag", "name", "description"} :
             StringFieldDecodes(e, key)
       /\ Has(e, "extractor") => (IsObj(e.o["extractor"]) \/ IsNil(e.o["extractor"]))

ArchitectureDecodes(v) ==
    \/ IsNil(v)
    \/ /\ IsObj(v)
       /\ StringFieldDecodes(v, "agent_id")
       /\ Has(v, "entrypoints") =>
             \/ IsNil(v.o["entrypoints"])
             \/ /\ IsArr(v.o["entrypoints"])
                /\ \A i \in DOMAIN v.o["entrypoints"].a :
                      EntryPointDecodes(v.o["entrypoints"].a[i])

\* *AgentArchitecture: the agent id and the tags of the entrypoints.
Architecture(v) ==
    [k |-> "architecture",
     AgentID |-> StringFieldValue(v, "agent_id"),
     Entrypoints |->
        IF Has(v, "entrypoints") /\ IsArr(v.o["entrypoints"])
        THEN [i \in DOMAIN v.o["entrypoints"].a |->
                StringFieldValue(v.o["entrypoints"].a[i], "tag")]
        ELSE <<>>]

\* json.Unmarshal(body, &envelope) in GetArchitecture.
EnvelopeDecodes(v) ==
    \/ IsNil(v)
    \/ /\ IsObj(v)
       /\ Has(v, "success") => (IsBool(v.o["success"]) \/ IsNil(v.o["success"]))
       /\ StringFieldDecodes(v, "message")
       /\ ArchitectureDecodes(MapIndex(v, "data"))

MissingEntrypoints ==
    newError(ErrorTypeValidation, "architecture missing entrypoints",
             "ARCHITECTURE_MISSING", "Redeploy the agent with entrypoints configured")

\* The legacy format: the document is the architecture itself.
LegacyAnswer(u) ==
    IF ~(u.ok /\ ArchitectureDecodes(u.v))
    THEN Ret(Null, newError(ErrorTypeUnknown, "failed to decode architecture", "", ""))
    ELSE IF Architecture(u.v).Entrypoints = <<>> THEN Ret(Null, MissingEntrypoints)
    ELSE Ret(Architecture(u.v), NoErr)

\* The envelope format, taken when the document decodes as an envelope that
\* has success set, a message or an error.
EnvelopeAnswer(status, v, data, failure) ==
    IF Has(v, "success") /\ v.o["success"] = Bool(TRUE)
    THEN IF Architecture(data).Entrypoints = <<>> THEN Ret(Null, MissingEntrypoints)
         ELSE Ret(Architecture(data), NoErr)
    ELSE IF ~failure.nil THEN Ret(Null, newExecutionError(status, failure))
    ELSE Ret(Null, newError(ErrorTypeServer, "failed to retrieve agent architecture",
                            "", ""))

ArchitectureDecoded(status, u) ==
    IF /\ u.ok /\ EnvelopeDecodes(u.v)
       /\ \/ Has(u.v, "success") /\ u.v.o["success"] = Bool(TRUE)
          \/ StringFieldValue(u.v, "message") # ""
          \/ ~IsNil(MapIndex(u.v, "error"))
    THEN EnvelopeAnswer(status, u.v, MapIndex(u.v, "data"),
                        parseAPIError(MapIndex(u.v, "error")))
    ELSE LegacyAnswer(u)

\* What GetArchitecture makes of a response it has read.
ArchitectureAnswer(status, body) ==
    IF status # 200 THEN Ret(Null, translateHTTPError(status, body))
    ELSE ArchitectureDecoded(status, Unmarshal(body))

ArchitectureStatuses == {200, 404}
ArchitectureBodies == {Marshal(d) : d \in ArchDocs} \cup {"hello"}

ArchitectureAnswers ==
    [status \in ArchitectureStatuses, body \in ArchitectureBodies |->
        ArchitectureAnswer(status, body)]

GetArchitectureReturn(t) ==
    CASE t.kind = "neterr" ->
            Ret(Null, newError(ErrorTypeConnection, "failed to reach RunAgent service",
                               "", ""))
      [] t.kind = "bodyerr" ->
            Ret(Null, newError(ErrorTypeUnknown, "failed to read response body", "", ""))
      [] OTHER -> ArchitectureAnswers[t.status, t.body]

GetArchitectureCall(c, t) ==
    LET endpoint == c.baseRESTURL \o "/agents/" \o c.agentID \o "/architecture"
    IN  IF ~URLParses(endpoint)
        THEN Local(newError(ErrorTypeUnknown, "failed to create request", "", ""))
        ELSE IF missingCredential(c)
        THEN Local(newError(ErrorTypeAuthentication,
                            "api_key is required for remote calls", "",
                            "Set RUNAGENT_API_KEY or pass Config.APIKey"))
        ELSE Sent(GetArchitectureReturn(t),
                  [method |-> "GET", url |-> endpoint,
                   auth |-> IF c.local THEN "" ELSE "Bearer " \o c.apiKey,
                   body |-> ""])

-----------------------------------------------------------------------------
(* Spec: one client, constructed from a configuration, an environment and  *)
(* a local registry of the bounded sets below, and a caller that calls      *)
(* Run, RunStream and GetArchitecture against transport doubles.           *)

MaxCalls == 2       \* transport invocations (HTTP calls and dials) of one run

Tags == {"chat", "stream", "generic_stream", "foo_stream", "FOO_STREAM", "STREAM"}

Configs ==
    [AgentID : {"agent-1", "%zz", " "}, EntrypointTag : Tags \cup {""},
     Local : {"nil", "true", "false"}, Host : {""}, Port : {0, 8450},
     BaseURL : {"", "http://example.test/"}, APIKey : {"", "key-1"},
     TimeoutSeconds : {0}, AsyncExecution : {"nil"}]

Environs ==
    [RUNAGENT_API_KEY : {"", " env-key "}, RUNAGENT_BASE_URL : {""},
     RUNAGENT_HOST : {""}, RUNAGENT_PORT : {""}, RUNAGENT_TIMEOUT : {""},
     RUNAGENT_LOCAL : {"", "true"}]

Registries ==
    {[state |-> "found", host |-> "10.0.0.5", port |-> 9000],
     [state |-> "missing", host |-> "", port |-> 0],
     [state |-> "lookupfail", host |-> "", port |-> 0],
     [state |-> "unavailable", host |-> "", port |-> 0]}

ValueLists ==
    {<<>>, <<Arg(Str("q"))>>, <<Kw("x", Num(1))>>, <<RawSlice(<<Str("q")>>)>>,
     <<Arg(Chan)>>}

RunTransports ==
    {NetError, BodyError(200)}
    \cup {Response(status, body) : status \in ResponseStatuses, body \in ResponseBodies}

StreamTransports == {Dialed("dialfail"), Dialed("writefail"), Dialed("open")}

ArchitectureTransports ==
    {NetError, BodyError(200)}
    \cup {Response(status, body) :
            status \in ArchitectureStatuses, body \in ArchitectureBodies}

\* The value the constructor returns beside a nil error.
ClientValue == [k |-> "client"]

Init ==
    /\ \E cfg \in Configs, environ \in Environs, registry \in Registries :
          \E made \in {NewRunAgentClient(cfg, environ, registry)} :
             /\ client = made.client
             /\ lastRet = Ret(IF made.err = NoErr THEN ClientValue ELSE Null, made.err)
    /\ lastOp = "NewRunAgentClient" /\ lastArgs = <<>>
    /\ httpCalls = 0 /\ wsDials = 0 /\ wsWrites = 0
    /\ lastReq = NoRequest /\ lastResp = NoResponse
    /\ ParseIdle /\ RestIdle /\ StreamIdle

\* An operation returned r after the transport, if invoked, answered t.
Returns(op, values, r, t) ==
    /\ lastOp' = op
    /\ lastArgs' = values
    /\ lastRet' = r.ret
    /\ lastReq' = r.req
    /\ lastResp' = IF r.http + r.dials > 0 THEN t ELSE NoResponse
    /\ httpCalls' = httpCalls + r.http
    /\ wsDials' = wsDials + r.dials
    /\ wsWrites' = wsWrites + r.writes
    /\ UNCHANGED client
    /\ UNCHANGED <<parseVars, restVars, streamVars>>

\* Run resolving the configuration again, from the environment as it is now.
Run_RereadsEnv(values, t) ==
    /\ client # NoClient
    /\ httpCalls + wsDials < MaxCalls
    /\ Returns("Run", values,
               RunCall(NewRunAgentClient(madeCfg, osEnv, madeReg).client, values, t), t)

Run(values, t) ==
    /\ client # NoClient
    /\ httpCalls + wsDials < MaxCalls
    /\ Returns("Run", values, RunCall(client, values, t), t)

RunStream(values, t) ==
    /\ client # NoClient
    /\ httpCalls + wsDials < MaxCalls
    /\ Returns("RunStream", values, RunStreamCall(client, values, t), t)

GetArchitecture(t) ==
    /\ client # NoClient
    /\ httpCalls + wsDials < MaxCalls
    /\ Returns("GetArchitecture", <<>>, GetArchitectureCall(client, t), t)

Next ==
    \/ \E values \in ValueLists, t \in RunTransports : Run(values, t)
    \/ \E values \in ValueLists, t \in StreamTransports : RunStream(values, t)
    \/ \E t \in ArchitectureTransports : GetArchitecture(t)

Spec == Init /\ [][Next]_vars

-----------------------------------------------------------------------------
(* Properties of the client facade, checked under Spec.                     *)

\* The last operation invoked no transport.
NoTransport == lastReq = NoRequest /\ lastResp = NoResponse

\* The last operation failed with a validation error of the given code.
GuardrailError(code) ==
    /\ lastRet.val = Null
    /\ lastRet.err.cls = "RunAgentError"
    /\ lastRet.err.Type = ErrorTypeValidation
    /\ lastRet.err.Code = code

\* With streaming the set of streaming tags: Run fails on them, RunStream
\* fails on the others, both without transport, and each passes where the
\* other fails.
GuardrailsFollow(streaming) ==
    /\ (lastOp = "Run" /\ client.entrypointTag \in streaming)
          => (GuardrailError("STREAM_ENTRYPOINT") /\ NoTransport)
    /\ (lastOp = "RunStream" /\ client.entrypointTag \notin streaming)
          => (GuardrailError("NON_STREAM_ENTRYPOINT") /\ NoTransport)
    /\ (lastOp = "Run" /\ client.entrypointTag \notin streaming)
          => lastRet.err.Code # "STREAM_ENTRYPOINT"
    /\ (lastOp = "RunStream" /\ client.entrypointTag \in streaming)
          => lastRet.err.Code # "NON_STREAM_ENTRYPOINT"

SuffixedTags == {tag \in Tags : HasSuffix(tag, "_stream")}
FoldedSuffixedTags == {tag \in Tags : HasSuffix(ToLower(tag), "_stream")}

(* C1, as stated: the streaming tags are "stream", "generic_stream" and     *)
(* the tags that end with "_stream"; Run fails on them with                 *)
(* VALIDATION_ERROR / STREAM_ENTRYPOINT, RunStream fails on all others      *)
(* with VALIDATION_ERROR / NON_STREAM_ENTRYPOINT, no transport is invoked,  *)
(* and exactly one of the two passes its guardrail.                        *)
C1_GuardrailsBySuffix ==
    GuardrailsFollow({"stream", "generic_stream"} \cup SuffixedTags)

(* C1, amended: the same, with the suffix "_stream" compared without        *)
(* regard to letter case ("stream" and "generic_stream" are compared        *)
(* exactly).                                                               *)
C1_GuardrailsByFoldedSuffix ==
    GuardrailsFollow({"stream", "generic_stream"} \cup FoldedSuffixedTags)

\* C1 witness: RunStream on the tag FOO_STREAM passed its guardrail and
\* opened a stream.
C1_Witness ==
    /\ lastOp = "RunStream" /\ client.entrypointTag = "FOO_STREAM"
    /\ lastRet = Ret(IteratorValue, NoErr) /\ wsDials = 1 /\ wsWrites = 1

\* A facade operation has returned on a remote client without API key.
RemoteWithoutKey ==
    /\ lastOp \in {"Run", "RunStream", "GetArchitecture"}
    /\ ~client.local /\ client.apiKey = ""

(* C2, as stated: on a remote client without API key, Run, RunStream and    *)
(* GetArchitecture each fail with AUTHENTICATION_ERROR and no transport is  *)
(* invoked.                                                                *)
C2_AlwaysAuthenticationError ==
    RemoteWithoutKey =>
        /\ lastRet.err.Type = ErrorTypeAuthentication
        /\ httpCalls = 0 /\ wsDials = 0 /\ wsWrites = 0

\* The checks that come before the credential check.
KindMismatch ==
    LET streaming == client.entrypointTag \in
                        {"stream", "generic_stream"} \cup FoldedSuffixedTags
    IN  (lastOp = "Run" /\ streaming) \/ (lastOp = "RunStream" /\ ~streaming)
ArgumentsRejected ==
    /\ lastOp \in {"Run", "RunStream"}
    /\ \E i \in DOMAIN lastArgs :
          lastArgs[i].t = "slice" \/ (lastArgs[i].t = "arg" /\ lastArgs[i].v = Chan)
MalformedAgentURL ==
    lastOp \in {"Run", "GetArchitecture"} /\ ~URLParses(client.agentID)

(* C2, amended: on a remote client without API key, Run, RunStream and      *)
(* GetArchitecture each fail without invoking any transport; the error is   *)
(* AUTHENTICATION_ERROR unless an earlier check fails: VALIDATION_ERROR     *)
(* when the operation does not match the kind of the tag or the arguments   *)
(* are rejected, UNKNOWN_ERROR when Run or GetArchitecture cannot build a   *)
(* request for the agent id.                                               *)
C2_FailsBeforeTransport ==
    RemoteWithoutKey =>
        /\ httpCalls = 0 /\ wsDials = 0 /\ wsWrites = 0 /\ NoTransport
        /\ lastRet.val = Null
        /\ lastRet.err.cls = "RunAgentError"
        /\ lastRet.err.Type =
              IF KindMismatch \/ ArgumentsRejected THEN ErrorTypeValidation
              ELSE IF MalformedAgentURL THEN ErrorTypeUnknown
              ELSE ErrorTypeAuthentication

\* C2 witness: Run with one positional argument on a remote client without
\* API key failed with AUTHENTICATION_ERROR.
C2_Witness ==
    /\ RemoteWithoutKey /\ lastOp = "Run" /\ lastArgs = <<Arg(Str("q"))>>
    /\ client.entrypointTag = "chat"
    /\ lastRet.err.Type = ErrorTypeAuthentication
    /\ httpCalls = 0 /\ wsDials = 0


\* Run has read a response from the transport.
RunAnswered == lastOp = "Run" /\ lastResp.kind = "resp"

SuccessBody == Marshal(Obj([success |-> Bool(TRUE), data |-> XObj]))

(* C12: for every status outside 200..299 and every body, a well-formed    *)
(* success envelope included, Run returns an error and no value.           *)
C12_NonSuccessStatusIsError ==
    (RunAnswered /\ lastResp.status \notin 200..299)
        => (/\ lastRet.val = Null
            /\ lastRet.err.cls = "RunAgentExecutionError"
            /\ lastRet.err.HTTPStatus = lastResp.status)

\* C12 witness: a 404 whose body is a success envelope came back as an error.
C12_Witness ==
    /\ RunAnswered /\ lastResp.status = 404 /\ lastResp.body = SuccessBody
    /\ lastRet.val = Null /\ lastRet.err.Type = ErrorTypeServer
    /\ httpCalls = 1

(* C13, as stated: for every status in 200..299 and every body that is no  *)
(* JSON document, Run returns the body decoded by one layer of structured- *)
(* string decoding, and no error.                                          *)
C13_PlainBodyIsValue ==
    (RunAnswered /\ lastResp.status \in 200..299 /\ ~Unmarshal(lastResp.body).ok)
        => (/\ lastRet.err = NoErr
            /\ lastRet.val = decodeStructuredString(lastResp.body))

\* The body is a JSON object whose error field is an object with a type.
BodyHasErrorType(body) ==
    /\ Unmarshal(body).ok /\ IsObj(Unmarshal(body).v)
    /\ Has(Unmarshal(body).v, "error")
    /\ IsObj(Unmarshal(body).v.o["error"])
    /\ Has(Unmarshal(body).v.o["error"], "type")
    /\ IsStr(Unmarshal(body).v.o["error"].o["type"])
    /\ Unmarshal(body).v.o["error"].o["type"].s # ""
BodyErrorType(body) == Unmarshal(body).v.o["error"].o["type"].s

(* C15, as stated: for a body without explicit error type, status 401      *)
(* gives AUTHENTICATION_ERROR, status 403 gives PERMISSION_ERROR and every *)
(* status from 500 on gives SERVER_ERROR.                                  *)
C15_StatusToKind ==
    (RunAnswered /\ ~BodyHasErrorType(lastResp.body))
        => (/\ lastResp.status = 401 => lastRet.err.Type = ErrorTypeAuthentication
            /\ lastResp.status = 403 => lastRet.err.Type = ErrorTypePermission
            /\ lastResp.status >= 500 => lastRet.err.Type = ErrorTypeServer)

(* C16, as stated: for a status outside 200..299 and a body whose          *)
(* structured error has an explicit type, the returned error has the type  *)
(* of the body, whatever the status (401, 403 and 500 included).           *)
C16_BodyTypeOverridesStatus ==
    (RunAnswered /\ lastResp.status \notin 200..299 /\ BodyHasErrorType(lastResp.body))
        => lastRet.err.Type = BodyErrorType(lastResp.body)

(* C17, as stated: every error the constructor, Run, RunStream and         *)
(* GetArchitecture return has a kind of the closed set of six error types, *)
(* also when it is built from a server-supplied payload.                   *)
C17_KindInTaxonomy ==
    lastRet.err # NoErr => lastRet.err.Type \in ErrorTypes

(* C18: a call to Run invokes the HTTP transport at most once and nothing  *)
(* else; a call to RunStream dials at most once, writes at most one        *)
(* message and only after its dial, and makes no HTTP call; whatever the   *)
(* outcome.                                                                *)
C18_OneAttemptPerCall ==
    [][ /\ lastOp' = "Run"
           => (/\ httpCalls' \in {httpCalls, httpCalls + 1}
               /\ wsDials' = wsDials /\ wsWrites' = wsWrites)
        /\ lastOp' = "RunStream"
           => (/\ wsDials' \in {wsDials, wsDials + 1}
               /\ wsWrites' \in {wsWrites, wsWrites + 1}
               /\ wsWrites' - wsWrites <= wsDials' - wsDials
               /\ httpCalls' = httpCalls)
      ]_vars

\* C18 witness: a Run answered with status 500 failed, and it was the
\* second HTTP call of the client.
C18_Witness ==
    /\ RunAnswered /\ lastResp.status = 500 /\ httpCalls = 2
    /\ lastRet.err.Type = ErrorTypeServer

-----------------------------------------------------------------------------
(* CoerceSpec: coerceToRunInput applied to every list of at most MaxTokens *)
(* values of the set below.                                                *)

MaxTokens == 3      \* values passed in one call

KwsMN == [m |-> Num(1), n |-> Num(5)]
KwsM  == [m |-> Num(2)]

CoerceTokens ==
    {Arg(Str("q")), Kw("m", Num(1)), Kw("m", Num(3)), Kws(KwsMN), Kws(KwsM),
     RawMap([m |-> Num(4)]), Struct([m |-> Num(6), x |-> Num(1)], TRUE),
     Struct(NoKwargs, FALSE), RawSlice(<<Str("q")>>), TypedSlice(<<Str("q")>>)}

CoerceValueLists == UNION {[1..n -> CoerceTokens] : n \in 0..MaxTokens}

CoerceInit ==
    /\ ClientIdle /\ ParseIdle /\ EnvIdle /\ FnIdle /\ StreamIdle /\ PkgIdle /\ WrapIdle
    /\ cValues \in CoerceValueLists
    /\ cOut = NotCoerced

\* One call of the function under test on the values drawn initially.
CoerceCall ==
    /\ ~cOut.called
    /\ \E r \in {coerceToRunInput(cValues)} :
          cOut' = [called |-> TRUE, input |-> r.input, err |-> r.err]
    /\ UNCHANGED cValues
    /\ UNCHANGED <<clientVars, parseVars, envVars, fnVars, streamVars, pkgVars, wrapVars>>

CoerceNext == CoerceCall

CoerceSpec == CoerceInit /\ [][CoerceNext]_vars

\* The value sets the named argument key, and to what.
SetsKey(v, key) ==
    \/ v.t = "kw" /\ v.key = key
    \/ v.t \in {"kws", "map", "struct"} /\ key \in DOMAIN v.m
ValueFor(v, key) == IF v.t = "kw" THEN v.v ELSE v.m[key]
LastSetting(values, key) ==
    CHOOSE i \in DOMAIN values :
        /\ SetsKey(values[i], key)
        /\ \A j \in DOMAIN values : j > i => ~SetsKey(values[j], key)

(* C19: when coerceToRunInput succeeds, the named arguments have exactly   *)
(* the keys some value sets (Kw, Kws, raw map, struct), and each key has   *)
(* the value given by the last value in call order that sets it; keys set  *)
(* only by earlier values are retained.                                    *)
C19_LastNamedSourceWins ==
    (cOut.called /\ cOut.err = NoErr) =>
        /\ DOMAIN cOut.input.InputKwargs =
              {key \in {"m", "n", "x"} :
                  \E i \in DOMAIN cValues : SetsKey(cValues[i], key)}
        /\ \A key \in DOMAIN cOut.input.InputKwargs :
              cOut.input.InputKwargs[key] =
                  ValueFor(cValues[LastSetting(cValues, key)], key)

\* C19 witness: Kws({m:1, n:5}), Kws({m:2}) gave m = 2 and kept n = 5.
C19_Witness ==
    /\ cOut.called /\ cOut.err = NoErr
    /\ cValues = <<Kws(KwsMN), Kws(KwsM)>>
    /\ cOut.input.InputKwargs = [m |-> Num(2), n |-> Num(5)]

(* C20, as stated: a call with a bare slice among its values, whatever the *)
(* element type of the slice, fails with VALIDATION_ERROR and returns the  *)
(* zero RunInput; the slice is never taken as one positional argument.     *)
C20_BareSliceRejected ==
    (cOut.called /\ \E i \in DOMAIN cValues : cValues[i].t \in {"slice", "typedslice"})
        => (/\ cOut.err.Type = ErrorTypeValidation
            /\ cOut.input = NotCoerced.input)

-----------------------------------------------------------------------------
(* BuildSpec: the constructor run against an environment that keeps        *)
(* changing, and the calls made on the client it returned.                 *)

MaxEnvChanges == 1  \* os.Setenv calls of one run

\* Where the Config points the client, and the credential and timeout it names.
BuildPlaces ==
    {[Local |-> "nil", Host |-> "", Port |-> 0, BaseURL |-> ""],
     [Local |-> "nil", Host |-> "", Port |-> 0, BaseURL |-> "http://example.test/"],
     [Local |-> "true", Host |-> "", Port |-> 0, BaseURL |-> ""],
     [Local |-> "true", Host |-> "127.0.0.1", Port |-> 8450, BaseURL |-> ""]}

BuildCredentials ==
    {[APIKey |-> "", TimeoutSeconds |-> 0], [APIKey |-> "key-1", TimeoutSeconds |-> 30]}

BuildConfigs ==
    {[AgentID |-> "agent-1", EntrypointTag |-> tag, Local |-> place.Local,
      Host |-> place.Host, Port |-> place.Port, BaseURL |-> place.BaseURL,
      APIKey |-> cred.APIKey, TimeoutSeconds |-> cred.TimeoutSeconds,
      AsyncExecution |-> "nil"] :
        tag \in {"chat", "stream"}, place \in BuildPlaces, cred \in BuildCredentials}

\* The values each RUNAGENT_* variable takes.
EnvValues ==
    [RUNAGENT_API_KEY |-> {"", " env-key "}, RUNAGENT_BASE_URL |-> {"", "http://env.test"},
     RUNAGENT_HOST |-> {"", "envhost"}, RUNAGENT_PORT |-> {"", "7000"},
     RUNAGENT_TIMEOUT |-> {"", "45"}, RUNAGENT_LOCAL |-> {"", "true"}]

BuildEnvirons ==
    {e \in [RUNAGENT_API_KEY : EnvValues.RUNAGENT_API_KEY,
            RUNAGENT_BASE_URL : EnvValues.RUNAGENT_BASE_URL,
            RUNAGENT_HOST : EnvValues.RUNAGENT_HOST,
            RUNAGENT_PORT : EnvValues.RUNAGENT_PORT,
            RUNAGENT_TIMEOUT : EnvValues.RUNAGENT_TIMEOUT,
            RUNAGENT_LOCAL : EnvValues.RUNAGENT_LOCAL] :
        /\ (e.RUNAGENT_HOST = "") = (e.RUNAGENT_PORT = "")
        /\ (e.RUNAGENT_LOCAL = "true") = (e.RUNAGENT_HOST # "")
        /\ e.RUNAGENT_BASE_URL # "" => e.RUNAGENT_LOCAL = ""
        /\ (e.RUNAGENT_API_KEY = "") = (e.RUNAGENT_TIMEOUT = "")}

BuildValueLists == {<<>>, <<Arg(Str("q"))>>}
BuildRunTransports == {NetError, Response(200, "hello")}
BuildStreamTransports == {Dialed("open")}

\* Whether the constructor consults the registry: validation passed, local
\* mode, and the host or the port is still missing.
Discovers(cfg, environ) ==
    LET env == loadEnvConfig(environ)
    IN  /\ TrimSpace(cfg.AgentID) # "" /\ TrimSpace(cfg.EntrypointTag) # ""
        /\ resolveBool(cfg.Local, env.local, FALSE)
        /\ (firstNonEmpty(<<cfg.Host, env.host>>) = ""
            \/ firstNonZero(<<cfg.Port, env.port>>) = 0)

\* The registry handles discoverLocalAgent opens and releases: db.NewService
\* gives one unless the registry is unavailable, and the deferred Close
\* releases it when the function returns.
RegistryHandles(registry) ==
    IF registry.state = "unavailable" THEN [opens |-> 0, closes |-> 0]
    ELSE [opens |-> 1, closes |-> 1]

BuildInit ==
    /\ ClientIdle /\ ParseIdle /\ CoerceIdle /\ FnIdle /\ StreamIdle /\ PkgIdle /\ WrapIdle
    /\ osEnv \in BuildEnvirons
    /\ madeCfg = NoConfig /\ madeEnv = NoEnviron /\ madeReg = NoRegistry
    /\ regOpens = 0 /\ regCloses = 0 /\ envChanges = 0

\* NewRunAgentClient(cfg) in the environment as it is now.
Construct(cfg, registry) ==
    /\ lastOp = ""
    /\ \E made \in {NewRunAgentClient(cfg, osEnv, registry)} :
          /\ client' = made.client
          /\ lastRet' = Ret(IF made.err = NoErr THEN ClientValue ELSE Null, made.err)
    /\ lastOp' = "NewRunAgentClient"
    /\ madeCfg' = cfg
    /\ madeEnv' = osEnv
    /\ IF Discovers(cfg, osEnv)
       THEN /\ madeReg' = registry
            /\ regOpens' = regOpens + RegistryHandles(registry).opens
            /\ regCloses' = regCloses + RegistryHandles(registry).closes
       ELSE /\ madeReg' = NoRegistry
            /\ UNCHANGED <<regOpens, regCloses>>
    /\ UNCHANGED <<httpCalls, wsDials, wsWrites, lastArgs, lastReq, lastResp>>
    /\ UNCHANGED <<osEnv, envChanges>>
    /\ UNCHANGED <<parseVars, coerceVars, fnVars, streamVars, pkgVars, wrapVars>>

\* NewClient of pkg/client, as far as the registry goes: an explicit host and
\* port come first; else local mode opens the registry, closes it when the
\* lookup fails or finds nothing, and keeps it in the client when the agent
\* is found.
PkgNewClient(opts, registry) ==
    IF opts.Host # "" /\ opts.Port # 0
    THEN [err |-> NoErr, consulted |-> FALSE, opens |-> 0, closes |-> 0]
    ELSE IF opts.Local # "true"
    THEN [err |-> NoErr, consulted |-> FALSE, opens |-> 0, closes |-> 0]
    ELSE CASE registry.state = "unavailable" ->
                [err |-> newError(ErrorTypeConnection,
                                  "failed to initialize local database", "", ""),
                 consulted |-> TRUE, opens |-> 0, closes |-> 0]
           [] registry.state = "lookupfail" ->
                [err |-> newError(ErrorTypeConnection,
                                  "failed to get agent from database", "", ""),
                 consulted |-> TRUE, opens |-> 1, closes |-> 1]
           [] registry.state = "missing" ->
                [err |-> newError(ErrorTypeValidation,
                                  "Agent " \o opts.AgentID
                                  \o " not found in local database. Start or register the agent locally first.",
                                  "", ""),
                 consulted |-> TRUE, opens |-> 1, closes |-> 1]
           [] OTHER ->
                [err |-> NoErr, consulted |-> TRUE, opens |-> 1, closes |-> 0]

\* client.NewClient(agentID, entrypointTag, opts) of pkg/client.  Its client
\* is another type: the calls of RunAgentClient are not made on it.
PkgConstruct(opts, registry) ==
    /\ lastOp = ""
    /\ \E made \in {PkgNewClient(opts, registry)} :
          /\ lastRet' = Ret(IF made.err = NoErr THEN ClientValue ELSE Null, made.err)
          /\ madeReg' = IF made.consulted THEN registry ELSE NoRegistry
          /\ regOpens' = regOpens + made.opens
          /\ regCloses' = regCloses + made.closes
    /\ lastOp' = "pkg.NewClient"
    /\ madeCfg' = opts
    /\ madeEnv' = osEnv
    /\ UNCHANGED <<client, httpCalls, wsDials, wsWrites, lastArgs, lastReq, lastResp>>
    /\ UNCHANGED <<osEnv, envChanges>>
    /\ UNCHANGED <<parseVars, coerceVars, fnVars, streamVars, pkgVars, wrapVars>>

\* os.Setenv(name, value), by anyone in the process.
Setenv(name, value) ==
    /\ envChanges < MaxEnvChanges
    /\ osEnv[name] # value
    /\ osEnv' = [osEnv EXCEPT ![name] = value]
    /\ envChanges' = envChanges + 1
    /\ UNCHANGED <<madeCfg, madeEnv, madeReg, regOpens, regCloses>>
    /\ UNCHANGED <<clientVars, parseVars, coerceVars, fnVars, streamVars, pkgVars, wrapVars>>

BuildNext ==
    \/ \E cfg \in BuildConfigs, registry \in Registries : Construct(cfg, registry)
    \/ \E opts \in BuildConfigs, registry \in Registries : PkgConstruct(opts, registry)
    \/ \E name \in DOMAIN EnvValues : \E value \in EnvValues[name] : Setenv(name, value)
    \/ \E values \in BuildValueLists, t \in BuildRunTransports : Run(values, t)
    \/ \E values \in BuildValueLists, t \in BuildStreamTransports : RunStream(values, t)

BuildSpec == BuildInit /\ [][BuildNext]_vars

\* The constructor was asked for local mode, by the Config or, the Config
\* being silent, by the environment; and neither named a host or a port.
LocalAsked ==
    \/ madeCfg.Local = "true"
    \/ madeCfg.Local = "nil" /\ ParseBool(madeEnv.RUNAGENT_LOCAL) = "true"
NoHostNoPort ==
    /\ TrimSpace(madeCfg.Host) = "" /\ madeCfg.Port = 0
    /\ TrimSpace(madeEnv.RUNAGENT_HOST) = "" /\ ~Atoi(madeEnv.RUNAGENT_PORT).ok
ConstructorReturned == madeCfg # NoConfig /\ lastOp # "pkg.NewClient"

\* C21: a local-mode construction with no host and no port from the Config or
\* the environment, whose registry lookup finds no agent, returns no client
\* and a VALIDATION_ERROR whose message contains the agent id and whose
\* suggestion is not empty.
C21_MissingAgentIsValidationError ==
    (ConstructorReturned /\ LocalAsked /\ NoHostNoPort /\ madeReg.state = "missing")
        => (/\ client = NoClient
            /\ lastRet.val = Null
            /\ lastRet.err.Type = ErrorTypeValidation
            /\ Contains(lastRet.err.Message, madeCfg.AgentID)
            /\ lastRet.err.Suggestion # "")

\* C21 witness: local mode asked by the environment alone, no host, no port,
\* the agent missing from the registry, and the constructor returned an error.
C21_Witness ==
    /\ ConstructorReturned /\ LocalAsked /\ NoHostNoPort
    /\ madeCfg.Local = "nil"
    /\ madeReg.state = "missing"
    /\ lastRet.err.Type = ErrorTypeValidation

\* What the precedence "Config, then environment, then default" gives for the
\* Config and the environment the constructor saw.
PreferredKey ==
    IF TrimSpace(madeCfg.APIKey) # "" THEN TrimSpace(madeCfg.APIKey)
    ELSE TrimSpace(madeEnv.RUNAGENT_API_KEY)
PreferredTimeout ==
    IF madeCfg.TimeoutSeconds > 0 THEN madeCfg.TimeoutSeconds
    ELSE IF Atoi(madeEnv.RUNAGENT_TIMEOUT).ok /\ Atoi(madeEnv.RUNAGENT_TIMEOUT).n > 0
    THEN Atoi(madeEnv.RUNAGENT_TIMEOUT).n
    ELSE DefaultTimeoutSeconds
PreferredBaseURL ==
    IF TrimSpace(madeCfg.BaseURL) # "" THEN TrimSpace(madeCfg.BaseURL)
    ELSE IF TrimSpace(madeEnv.RUNAGENT_BASE_URL) # ""
    THEN TrimSpace(madeEnv.RUNAGENT_BASE_URL)
    ELSE DefaultBaseURL
PreferredHost ==
    IF TrimSpace(madeCfg.Host) # "" THEN TrimSpace(madeCfg.Host)
    ELSE IF TrimSpace(madeEnv.RUNAGENT_HOST) # "" THEN TrimSpace(madeEnv.RUNAGENT_HOST)
    ELSE madeReg.host
PreferredPort ==
    IF madeCfg.Port > 0 THEN madeCfg.Port
    ELSE IF Atoi(madeEnv.RUNAGENT_PORT).ok /\ Atoi(madeEnv.RUNAGENT_PORT).n > 0
    THEN Atoi(madeEnv.RUNAGENT_PORT).n
    ELSE madeReg.port
PreferredLocal ==
    IF madeCfg.Local # "nil" THEN madeCfg.Local = "true"
    ELSE ParseBool(madeEnv.RUNAGENT_LOCAL) = "true"
PreferredREST ==
    IF PreferredLocal
    THEN "http://" \o PreferredHost \o ":" \o Itoa(PreferredPort) \o DefaultAPIPrefix
    ELSE normalizeRemoteBases(PreferredBaseURL).rest
PreferredSocket ==
    IF PreferredLocal
    THEN "ws://" \o PreferredHost \o ":" \o Itoa(PreferredPort) \o DefaultAPIPrefix
    ELSE normalizeRemoteBases(PreferredBaseURL).socket

\* C22: the REST base, the socket base, the API key and the timeout of a
\* client are the ones the precedence Config, environment, default gives for
\* the environment of its construction, and every request Run and RunStream
\* send later carries them, whatever the environment has become since.
C22_ResolvedOnceAtConstruction ==
    client # NoClient =>
        /\ client.local = PreferredLocal
        /\ client.apiKey = PreferredKey
        /\ client.timeoutSecs = PreferredTimeout
        /\ client.baseRESTURL = PreferredREST
        /\ client.baseSocketURL = PreferredSocket
        /\ (lastOp = "Run" /\ lastReq # NoRequest) =>
              /\ HasPrefix(lastReq.url, PreferredREST \o "/agents/")
              /\ lastReq.auth = IF PreferredLocal THEN "" ELSE "Bearer " \o PreferredKey
              /\ Contains(lastReq.body, "\"timeout_seconds\":" \o Itoa(PreferredTimeout) \o "}")
        /\ (lastOp = "RunStream" /\ lastReq # NoRequest) =>
              /\ HasPrefix(lastReq.url, PreferredSocket \o "/agents/")
              /\ ~PreferredLocal => HasSuffix(lastReq.url, "?token=" \o QueryEscape(PreferredKey))
              /\ PreferredLocal => ~Contains(lastReq.url, "token=")

\* C22 witness: the API key came from the environment, the variable was
\* emptied after the constructor returned, and a later Run sent the key.
C22_Witness ==
    /\ client # NoClient /\ ~client.local
    /\ madeCfg.APIKey = "" /\ madeEnv.RUNAGENT_API_KEY # ""
    /\ osEnv.RUNAGENT_API_KEY = ""
    /\ lastOp = "Run" /\ lastReq # NoRequest
    /\ lastReq.auth = "Bearer " \o TrimSpace(madeEnv.RUNAGENT_API_KEY)

-----------------------------------------------------------------------------
(* Spec, continued: the credential of the streaming handshake.              *)

\* C23: the upgrade request of a RunStream that opened its stream carries the
\* credential as a bearer Authorization header and as a token query parameter
\* when the client is remote, and carries neither when it is local.
C23_StreamCredentialInHeaderAndQuery ==
    (lastOp = "RunStream" /\ lastRet.err = NoErr) =>
        IF client.local
        THEN lastReq.auth = "" /\ ~Contains(lastReq.url, "token=")
        ELSE /\ lastReq.auth = "Bearer " \o client.apiKey
             /\ HasSuffix(lastReq.url, "?token=" \o QueryEscape(client.apiKey))

-----------------------------------------------------------------------------
(* NativeSpec: RunNative and RunStreamNative beside Run and RunStream.      *)

\* A RunInput as coerceToRunInput sees it when it is passed as a value: a
\* struct, whose json round trip (structToMap) gives a map keyed by the names
\* of its fields, RunInput having no json tags.
RunInputStruct(input) ==
    Struct([InputArgs |-> Arr(input.InputArgs),
            InputKwargs |-> Obj(input.InputKwargs),
            TimeoutSeconds |-> Num(input.TimeoutSeconds),
            AsyncExecution |-> IF input.AsyncExecution = "nil" THEN Null
                               ELSE Bool(input.AsyncExecution = "true")],
           Serializes(Arr(input.InputArgs)) /\ Serializes(Obj(input.InputKwargs)))

\* RunNative: the values are coerced, and the RunInput is handed to Run as
\* its one value.
RunNativeCall(c, values, t) ==
    LET coerced == coerceToRunInput(values)
    IN  IF coerced.err # NoErr THEN Local(coerced.err)
        ELSE RunCall(c, <<RunInputStruct(coerced.input)>>, t)

RunStreamNativeCall(c, values, t) ==
    LET coerced == coerceToRunInput(values)
    IN  IF coerced.err # NoErr THEN Local(coerced.err)
        ELSE RunStreamCall(c, <<RunInputStruct(coerced.input)>>, t)

RunNative(values, t) ==
    /\ client # NoClient
    /\ httpCalls + wsDials < MaxCalls
    /\ Returns("RunNative", values, RunNativeCall(client, values, t), t)

RunStreamNative(values, t) ==
    /\ client # NoClient
    /\ httpCalls + wsDials < MaxCalls
    /\ Returns("RunStreamNative", values, RunStreamNativeCall(client, values, t), t)

NativeConfigs ==
    {[AgentID |-> "agent-1", EntrypointTag |-> tag, Local |-> "true",
      Host |-> "127.0.0.1", Port |-> 8450, BaseURL |-> "", APIKey |-> "",
      TimeoutSeconds |-> 0, AsyncExecution |-> "nil"] : tag \in {"chat", "stream"}}

NativeValueLists ==
    {<<>>, <<Arg(Str("q"))>>, <<Kw("x", Num(1))>>,
     <<Arg(Str("q")), Arg(Num(4)), Kw("x", Num(3))>>,
     <<RawSlice(<<Str("q")>>)>>, <<Arg(Chan)>>}

NativeRunTransports == {NetError, Response(200, "hello"), Response(500, "hello")}

NativeInit ==
    /\ \E cfg \in NativeConfigs :
          \E made \in {NewRunAgentClient(cfg, NoEnviron, NoRegistry)} :
             /\ client = made.client
             /\ lastRet = Ret(IF made.err = NoErr THEN ClientValue ELSE Null, made.err)
    /\ lastOp = "NewRunAgentClient" /\ lastArgs = <<>>
    /\ httpCalls = 0 /\ wsDials = 0 /\ wsWrites = 0
    /\ lastReq = NoRequest /\ lastResp = NoResponse
    /\ ParseIdle /\ RestIdle /\ StreamIdle

NativeNext ==
    \/ \E values \in NativeValueLists, t \in NativeRunTransports : Run(values, t)
    \/ \E values \in NativeValueLists, t \in NativeRunTransports : RunNative(values, t)
    \/ \E values \in NativeValueLists, t \in StreamTransports : RunStream(values, t)
    \/ \E values \in NativeValueLists, t \in StreamTransports : RunStreamNative(values, t)

NativeSpec == NativeInit /\ [][NativeNext]_vars

\* C24: the request RunNative sends is the request Run sends for the same
\* values, and the handshake of RunStreamNative is the handshake of RunStream:
\* the same input_args in the same order and the same input_kwargs.
C24_NativeSendsSameRequest ==
    /\ (lastOp = "RunNative" /\ lastReq # NoRequest)
          => lastReq.body = RunCall(client, lastArgs, lastResp).req.body
    /\ (lastOp = "RunStreamNative" /\ lastReq # NoRequest /\ lastReq.body # "")
          => lastReq.body = RunStreamCall(client, lastArgs, lastResp).req.body

-----------------------------------------------------------------------------
(* HelperSpec: the decoding and the enrichment helpers applied to every    *)
(* argument of the bounded input sets, once and again.                     *)

MaxApply == 2       \* applications of one helper to its own result

\* Values that are encoded, held in a string, and encoded once more.
LayerValues == {Num(1), XObj, Str("hello"), Str(Marshal(XObj))}

DecodeTexts ==
    PlainTexts \cup {"", "a\"b", "{x"}
    \cup {Marshal(v) : v \in {Null, Num(1), XObj, Str("hello"),
                              Obj([payload |-> Str(Marshal(XObj))])}}
    \cup {Marshal(Str(Marshal(v))) : v \in LayerValues}

DecodeObjects ==
    {XObj, Obj([payload |-> Num(3)]), Obj([payload |-> Str("hello")]),
     Obj([payload |-> Str(Marshal(XObj))]),
     Obj([payload |-> Str(Marshal(Str(Marshal(XObj))))])}

ErrorPayloads ==
    {NilPayload}
    \cup {ApiError(ErrorTypeServer, code, message, suggestion, Null) :
            message \in ErrorMessages, code \in ErrorCodes,
            suggestion \in ErrorSuggestions}

HelperStatuses == {0, 401, 403, 404, 500}

HelperCalls ==
    {[NoCall EXCEPT !.fn = "decodeStructuredString", !.text = text] :
        text \in DecodeTexts}
    \cup {[NoCall EXCEPT !.fn = "decodeStructuredObject", !.obj = obj] :
            obj \in DecodeObjects}
    \cup {[NoCall EXCEPT !.fn = "enrichErrorPayload", !.payload = payload] :
            payload \in ErrorPayloads}
    \cup {[NoCall EXCEPT !.fn = "newExecutionError", !.status = status,
                         !.payload = payload] :
            status \in {0, 500}, payload \in ErrorPayloads}
    \cup {[NoCall EXCEPT !.fn = "translateHTTPError", !.status = status,
                         !.payload = payload,
                         !.text = Marshal(ErrorEnvelope(payload.Message, payload.Code,
                                                        payload.Suggestion))] :
            status \in HelperStatuses \ {0}, payload \in ErrorPayloads \ {NilPayload}}

HelperInit ==
    /\ ClientIdle /\ ParseIdle /\ CoerceIdle /\ EnvIdle /\ StreamIdle /\ PkgIdle /\ WrapIdle
    /\ fCall \in HelperCalls
    /\ fRes = Null /\ fPrev = Null /\ fN = 0

Applied(result) ==
    /\ fRes' = result
    /\ fPrev' = fRes
    /\ fN' = fN + 1
    /\ UNCHANGED fCall
    /\ UNCHANGED <<clientVars, parseVars, coerceVars, envVars, streamVars, pkgVars, wrapVars>>

\* decodeStructuredString on the text, then on the string it returned.
DecodeString ==
    /\ fCall.fn = "decodeStructuredString"
    /\ fN < MaxApply
    /\ fN > 0 => IsStr(fRes)
    /\ Applied(decodeStructuredString(IF fN = 0 THEN fCall.text ELSE fRes.s))

DecodeObject ==
    /\ fCall.fn = "decodeStructuredObject"
    /\ fN = 0
    /\ Applied(decodeStructuredObject(fCall.obj))

\* enrichErrorPayload on the payload, then on the payload it returned.
Enrich ==
    /\ fCall.fn = "enrichErrorPayload"
    /\ fN < MaxApply
    /\ Applied(enrichErrorPayload(IF fN = 0 THEN fCall.payload ELSE fRes))

MakeExecutionError ==
    /\ fCall.fn = "newExecutionError"
    /\ fN = 0
    /\ Applied(newExecutionError(fCall.status, fCall.payload))

TranslateHTTP ==
    /\ fCall.fn = "translateHTTPError"
    /\ fN = 0
    /\ Applied(translateHTTPError(fCall.status, fCall.text))

HelperNext ==
    DecodeString \/ DecodeObject \/ Enrich \/ MakeExecutionError \/ TranslateHTTP

HelperSpec == HelperInit /\ [][HelperNext]_vars

\* C25: decodeStructuredString returns a string that is no JSON document as
\* it is, however often it is applied to its own result; and one call removes
\* one layer of encoding: a string that holds an encoded value, encoded once
\* more, decodes to that string at the first call and to the value at the
\* second, alone or as the payload of an object.
C25_PlainUnchangedOneLayerPerCall ==
    /\ (fCall.fn = "decodeStructuredString" /\ fN >= 1 /\ ~Unmarshal(fCall.text).ok)
          => fRes = Str(fCall.text)
    /\ \A v \in LayerValues :
          /\ (fCall.fn = "decodeStructuredString"
              /\ fCall.text = Marshal(Str(Marshal(v))))
                => /\ fN = 1 => fRes = Str(Marshal(v))
                   /\ fN = 2 => fRes = v
          /\ (fCall.fn = "decodeStructuredObject" /\ fN = 1
              /\ fCall.obj = Obj([payload |-> Str(Marshal(Str(Marshal(v))))]))
                => fRes = Str(Marshal(v))

\* C25 witness: a text that is no JSON document went through two calls and
\* came back as it was.
C25_Witness ==
    /\ fCall.fn = "decodeStructuredString" /\ fN = 2
    /\ fCall.text # "" /\ ~Unmarshal(fCall.text).ok
    /\ fPrev = Str(fCall.text) /\ fRes = Str(fCall.text)

\* C26: an error payload that carries a suggestion keeps it through
\* enrichErrorPayload, newExecutionError and translateHTTPError (whatever the
\* status), and enrichErrorPayload applied to its own result changes nothing.
C26_SuggestionKeptEnrichmentIdempotent ==
    /\ (/\ fCall.fn \in {"enrichErrorPayload", "newExecutionError", "translateHTTPError"}
        /\ fN >= 1
        /\ ~fCall.payload.nil /\ fCall.payload.Suggestion # "")
          => fRes.Suggestion = fCall.payload.Suggestion
    /\ (fCall.fn = "enrichErrorPayload" /\ fN = 2) => fRes = fPrev

\* C26 witness: a 401 whose body matches an enrichment rule and carries a
\* suggestion of the server was translated, and the suggestion is the server's.
C26_Witness ==
    /\ fCall.fn = "translateHTTPError" /\ fN = 1 /\ fCall.status = 401
    /\ EnrichmentFor(fCall.payload) # ""
    /\ fCall.payload.Suggestion = "slow down"
    /\ fRes.Suggestion = "slow down"

-----------------------------------------------------------------------------
(* PayloadSpec: the StreamIterator on streams of data frames and frames of *)
(* unknown type, some of which carry an error inside.                      *)

DeliverPayload(m) == Deliver(m)

PayloadNext ==
    \/ \E ctx \in Contexts : NextBegin(ctx)
    \/ NextSelect
    \/ NextRead
    \/ Close
    \/ Cancel
    \/ \E m \in PayloadMessages : DeliverPayload(m)

PayloadSpec == StreamInit /\ [][PayloadNext]_vars

\* The frame Next is about to read; its content (its data when it has no
\* content) decoded, a string by one decodeStructuredString; and what
\* decodeStreamPayload makes of the frame.
FrameAtHead == UnmarshalFrame(Head(incoming).text).frame
ContentAtHead ==
    LET raw == PayloadRaw(FrameAtHead)
    IN  IF IsStr(raw) THEN decodeStructuredString(raw.s) ELSE raw
PayloadAtHead == decodeStreamPayload(FrameAtHead)

\* The value is a mapping with an error key that is not null, or with a type
\* that reads "error".
CarriesError(value) ==
    /\ IsObj(value)
    /\ \/ Has(value, "error") /\ ~IsNil(value.o["error"])
       \/ /\ Has(value, "type") /\ IsStr(value.o["type"])
          /\ EqualFold(value.o["type"].s, "error")

\* Next reads a data frame or a frame of unknown type.
ReadsPayloadFrame ==
    /\ pc = "read" /\ incoming # <<>> /\ reads' = reads + 1
    /\ Head(incoming).kind = "msg"
    /\ ToLower(FrameAtHead.Type) \notin {"status", "error"}

\* The read ends the call with a failure, closes the connection and yields
\* nothing.
RaisesAndCloses ==
    /\ pc' = "idle"
    /\ outcome'.ret \in {"panic", "error"}
    /\ closed' /\ connCloses' = connCloses + 1
    /\ termCause' = "embedded"
    /\ yielded' = yielded

\* C27: when Next reads a data frame or a frame of unknown type whose decoded
\* content is a mapping with a non-null error key or an error type, the call
\* ends by raising a failure, the connection is closed in that step, and no
\* part of the frame is yielded.
C27_EmbeddedErrorIsRaised ==
    [][ (ReadsPayloadFrame /\ CarriesError(ContentAtHead)) => RaisesAndCloses ]_vars

\* The same for the value decodeStreamPayload returns, which is the content
\* of the content when the content is a mapping with a content key.
ErrorInReturnedPayloadIsRaised ==
    [][ (ReadsPayloadFrame /\ CarriesError(PayloadAtHead)) => RaisesAndCloses ]_vars

-----------------------------------------------------------------------------
(* BuildSpec, continued: the registry handle.                               *)

\* C28: once a constructor has returned, every registry handle it opened has
\* been released, whatever the lookup gave.
C28_RegistryHandleReleased ==
    madeCfg # NoConfig => regCloses = regOpens

\* The same for NewRunAgentClient alone.
RegistryReleasedByNewRunAgentClient ==
    ConstructorReturned => regCloses = regOpens

-----------------------------------------------------------------------------
(* pkg/client: the StreamIterator of the lower-level client. It reads the   *)
(* same kind of connection; its fields are finished and err.                *)

MaxCloses == 3      \* Close calls on one connection

\* an error built by fmt.Errorf
Errorf(message) ==
    [cls |-> "errorString", Type |-> "", Code |-> "", Message |-> message,
     Suggestion |-> "", Details |-> Null, HTTPStatus |-> 0]

StreamMessage(type, status, content, error) ==
    [Type |-> type, Status |-> status, Content |-> content, Error |-> error]

\* CoreSerializer.DeserializeMessage: json.Unmarshal into a StreamMessage.
DeserializeMessage(jsonStr) ==
    LET u == Unmarshal(jsonStr)
        zero == StreamMessage("", "", Null, "")
    IN  IF ~u.ok THEN [ok |-> FALSE, msg |-> zero]
        ELSE IF IsNil(u.v) THEN [ok |-> TRUE, msg |-> zero]
        ELSE IF ~IsObj(u.v) THEN [ok |-> FALSE, msg |-> zero]
        ELSE IF ~(StringFieldDecodes(u.v, "type") /\ StringFieldDecodes(u.v, "status")
                  /\ StringFieldDecodes(u.v, "error"))
        THEN [ok |-> FALSE, msg |-> zero]
        ELSE [ok |-> TRUE,
              msg |-> StreamMessage(StringFieldValue(u.v, "type"),
                                    StringFieldValue(u.v, "status"),
                                    MapIndex(u.v, "content"),
                                    StringFieldValue(u.v, "error"))]

\* What Next does with one result of conn.ReadMessage: it yields, finishes
\* (with or without an error), or calls itself. No arm closes the connection.
PkgStep(step, ret, chunk, err, finish, cause) ==
    [step |-> step, ret |-> ret, chunk |-> chunk, err |-> err, finish |-> finish,
     cause |-> cause]

PkgFail(message, cause) == PkgStep("return", "error", Null, Errorf(message), TRUE, cause)

PkgHandle(m) ==
    IF m.kind = "err"
    THEN PkgFail("failed to read WebSocket message: unexpected EOF", "readerr")
    ELSE LET d == DeserializeMessage(m.text)
             msg == d.msg
         IN  IF ~d.ok
             THEN PkgFail("failed to deserialize message: invalid JSON", "decode")
             ELSE IF msg.Error # ""
             THEN PkgFail("stream error: " \o msg.Error, "error")
             ELSE IF msg.Type = "status"
             THEN IF msg.Status = "stream_completed"
                  THEN PkgStep("return", "eos", Null, NoErr, TRUE, "completed")
                  ELSE PkgStep("continue", "none", Null, NoErr, FALSE, "")
             ELSE IF msg.Type = "data"
             THEN PkgStep("return", "chunk", msg.Content, NoErr, FALSE, "")
             ELSE IF msg.Type = "error"
             THEN PkgFail("agent error: ", "error")
             ELSE PkgStep("continue", "none", Null, NoErr, FALSE, "")

PkgMessages ==
    {Msg(Marshal(f)) : f \in {FrameStarted, FrameCompleted, FrameHeartbeat,
                              FrameDataA, FrameErrField, FrameErrorLower}}
    \cup {Msg("hello"), ReadFailure}

PkgHandling == [m \in PkgMessages |-> PkgHandle(m)]

\* Next, up to the select: the check of finished and err at its start.
PkgNextBegin(ctx) ==
    /\ pc = "idle"
    /\ callCtx' = ctx
    /\ IF finished \/ sErr # NoErr
       THEN /\ outcome' = Out(IF sErr = NoErr THEN "eos" ELSE "error", Null, sErr)
            /\ pc' = "idle"
       ELSE /\ pc' = "select"
            /\ UNCHANGED outcome
    /\ UNCHANGED <<closed, ctxDone, incoming, delivered, history, reads,
                   connCloses, yielded, termCause, termOutcome>>
    /\ UNCHANGED <<clientVars, parseVars, restVars>>

\* The select on ctx.Done(): the only place where Next closes the connection.
PkgNextSelect ==
    /\ pc = "select"
    /\ IF Done(callCtx)
       THEN /\ finished' = TRUE
            /\ connCloses' = connCloses + 1
            /\ termCause' = "cancel"
            /\ outcome' = Out("error", Null, ContextCanceled)
            /\ pc' = "idle"
       ELSE /\ pc' = "read"
            /\ UNCHANGED <<finished, connCloses, termCause, outcome>>
    /\ UNCHANGED <<closed, callCtx, ctxDone, incoming, delivered, history, reads,
                   yielded, termOutcome, sErr>>
    /\ UNCHANGED <<clientVars, parseVars, coerceVars, envVars, fnVars, wrapVars>>

\* conn.ReadMessage returns, and the rest of Next handles what it returned;
\* where Next calls itself, the call starts again at the select (finished
\* and err are unset there).
PkgNextRead ==
    /\ pc = "read"
    /\ incoming # <<>>
    /\ reads' = reads + 1
    /\ incoming' = Tail(incoming)
    /\ \E h \in {PkgHandling[Head(incoming)]} :
           /\ IF h.step = "continue"
              THEN pc' = "select" /\ UNCHANGED outcome
              ELSE pc' = "idle" /\ outcome' = Out(h.ret, h.chunk, h.err)
           /\ finished' = (finished \/ h.finish)
           /\ sErr' = IF h.err # NoErr THEN h.err ELSE sErr
           /\ termCause' = IF h.finish THEN h.cause ELSE termCause
           /\ yielded' = IF h.ret = "chunk" THEN Append(yielded, h.chunk) ELSE yielded
    /\ UNCHANGED <<closed, callCtx, ctxDone, delivered, history, connCloses,
                   termOutcome>>
    /\ UNCHANGED <<clientVars, parseVars, coerceVars, envVars, fnVars, wrapVars>>

\* Close, called between two Next calls: it closes the connection each time.
PkgClose ==
    /\ pc = "idle"
    /\ connCloses < MaxCloses
    /\ finished' = TRUE
    /\ connCloses' = connCloses + 1
    /\ termCause' = IF termCause = "" THEN "close" ELSE termCause
    /\ UNCHANGED <<closed, pc, callCtx, ctxDone, incoming, delivered, history,
                   reads, yielded, outcome, termOutcome, sErr>>
    /\ UNCHANGED <<clientVars, parseVars, coerceVars, envVars, fnVars, wrapVars>>

PkgDeliver(m) == Deliver(m)

PkgStreamNext ==
    \/ \E ctx \in Contexts : PkgNextBegin(ctx)
    \/ PkgNextSelect
    \/ PkgNextRead
    \/ PkgClose
    \/ Cancel
    \/ \E m \in PkgMessages : PkgDeliver(m)

PkgStreamSpec == StreamInit /\ [][PkgStreamNext]_vars

\* The iterator has taken one of the four terminal paths of a stream.
PkgTerminated == termCause \in {"completed", "error", "readerr", "cancel"}

\* C29: for the pkg/client StreamIterator, once a terminal path has been
\* taken (stream_completed, an error frame, a read failure, a cancellation)
\* the connection has been closed exactly once, and it stays closed exactly
\* once over every later Next and Close.
C29_ConnectionClosedExactlyOnce ==
    PkgTerminated => connCloses = 1

\* What the code does keep: Next closes the connection on cancellation only,
\* and never twice.
PkgNextClosesOnCancelOnly ==
    [][ (pc # "idle" /\ connCloses' # connCloses)
            => (Done(callCtx) /\ connCloses' = connCloses + 1
                /\ outcome'.err = ContextCanceled) ]_vars

-----------------------------------------------------------------------------
(* NextOrPanic: a consumer that calls nothing but NextOrPanic (and Close).  *)

PanicTerminated == "RunAgent stream: terminated unexpectedly before completion"

Returned(val) == [ret |-> "value", val |-> val]
Panicked(val) == [ret |-> "panic", val |-> val]

\* NextOrPanic returning nil at the end of the stream instead of panicking.
NextOrPanic_NilAtEnd(out) ==
    IF out.ret = "panic" THEN Panicked(out.chunk)
    ELSE IF out.err # NoErr THEN Panicked(Str(formatFriendlyError(out.err)))
    ELSE Returned(out.chunk)

\* NextOrPanic, given what the Next call inside it did: a panic inside Next
\* goes through, an error and hasMore = false become panics.
NextOrPanic(out) ==
    IF out.ret = "panic" THEN Panicked(out.chunk)
    ELSE IF out.err # NoErr THEN Panicked(Str(formatFriendlyError(out.err)))
    ELSE IF out.ret # "chunk" THEN Panicked(Str(PanicTerminated))
    ELSE Returned(out.chunk)

\* The wrapper's part of a step of the Next call it makes: when that call
\* ends in this step the wrapper ends with it.
WrapStep ==
    /\ wrapOut' = IF pc' = "idle" THEN NextOrPanic(outcome') ELSE NoReturn
    /\ UNCHANGED <<clientVars, parseVars, coerceVars, envVars, fnVars, pkgVars>>

NextOrPanicBegin(ctx) == NextEntry(ctx) /\ WrapStep
NextOrPanicSelect == NextSelectArm /\ WrapStep
NextOrPanicRead == NextReadArm /\ WrapStep

PanicNext ==
    \/ \E ctx \in Contexts : NextOrPanicBegin(ctx)
    \/ NextOrPanicSelect
    \/ NextOrPanicRead
    \/ Close
    \/ Cancel
    \/ \E m \in ServerMessages : Deliver(m)

PanicSpec == StreamInit /\ [][PanicNext]_vars

\* A NextOrPanic call has ended and no other is running.
NextOrPanicEnded == pc = "idle" /\ wrapOut # NoReturn

\* C30: NextOrPanic returns a value only when the Next call inside it
\* yielded a chunk (hasMore true, no error), and the value is that chunk; in
\* every other case it panics, and at the graceful end of the stream and on an
\* iterator that is already closed it panics with the "terminated
\* unexpectedly" message, so no call tells its caller that the stream is over.
C30_NextOrPanicReturnsChunksOnly ==
    NextOrPanicEnded =>
        /\ wrapOut.ret \in {"value", "panic"}
        /\ wrapOut.ret = "value" <=> (outcome.ret = "chunk" /\ outcome.err = NoErr)
        /\ wrapOut.ret = "value" => wrapOut.val = outcome.chunk
        /\ outcome = EndOfStream => wrapOut = Panicked(Str(PanicTerminated))

\* A consumer has received chunks, the stream has ended with
\* stream_completed, and the NextOrPanic call that read it panicked.
C30_Witness ==
    /\ NextOrPanicEnded
    /\ termCause = "completed"
    /\ yielded # <<>>
    /\ outcome = EndOfStream
    /\ wrapOut = Panicked(Str(PanicTerminated))

====
